---------------------------- MODULE Spec2Model ----------------------------
(***************************************************************************)
(* A model of the storage, virtual-memory, process and timer core of the   *)
(* pintos kernel in src/: the buffer cache (filesys/cache.c), the indexed  *)
(* inode store (filesys/inode.c), the sleep queue (devices/timer.c), the   *)
(* exec/wait/exit protocol (userprog/process.c, userprog/syscall.c) and    *)
(* the supplemental page table, frame table, swap and mmap (vm/).          *)
(*                                                                         *)
(* Each subsystem has its own specification (SpecCache, SpecInode, ...);   *)
(* a specification leaves the variables of the other subsystems alone.     *)
(* Sizes are scaled down: a sector is BLOCK_SECTOR_SIZE cells, one cell    *)
(* standing for one 32-bit word of struct inode_disk or one data byte.     *)
(***************************************************************************)
EXTENDS Integers, Sequences, FiniteSets, TLC

VARIABLES
  \* ---- buffer cache, filesys/cache.c ----
  filesys_cache,   \* the slot array: [sector, in_use, dirty, access, pin, data]
  evict_t,         \* the static cursor t of filesys_cache_evict
  cache_enabled,   \* cache.c:37
  sync_write,      \* cache.c:47
  cache_ticks,     \* cache.c:44
  fs_device,       \* the raw file-system block device: sector -> data
  cache_panic,     \* the kernel panicked (or dereferenced NULL) in cache.c
  cache_enables,   \* history: how many times the cache was switched on
  shadow,          \* history: sector -> the bytes of the most recent write
  last_read,       \* history: what the last read returned and what was written
  \* ---- sleep queue, devices/timer.c ----
  ticks,             \* timer.c:21
  sleeping_threads,  \* timer.c:42, the list, front first, of thread ids
  sleeper,           \* thread -> its struct sleeping_thread and where it is
  inserted,          \* history: how many sleepers were inserted so far
  signal_log,        \* history: the threads signalled, in the order of sema_up
  timer_last,        \* history: the last step: "call", "insert" or "tick"
  \* ---- exec / wait / exit, userprog/process.c, userprog/syscall.c ----
  p_pc,            \* where the parent thread is
  p_blocked,       \* the parent sleeps in the waiters list of a semaphore
  p_exit_code,     \* process_wait's local exit_code (process.c:130)
  exec_ret,        \* what exec returned to the parent: <<>> before, then <<pid>>
  wait_ret,        \* what the parent's process_wait calls returned, in order
  c_pc,            \* where the child thread is
  c_has_parent,    \* process_exit's local has_parent (process.c:168)
  c_status,        \* history: <<>>, then <<the status the child exits with>>
  c_closed,        \* history: the child closed its files (process.c:189-202)
  load_signalled,  \* history: the child did sema_up (&p->load_sema)
  child,           \* the child's struct process
  in_children,     \* child_elem is linked in the parent's chilren list
  proc_uaf,        \* history: the parent used the child's record after free
  proc_panic,      \* the kernel panicked or faulted
  \* ---- inode store, filesys/inode.c ----
  free_map,        \* the free map: the set of allocated sectors
  open_inodes,     \* inode.c:431, the list of struct inode, front first
  inode_panic,     \* the kernel panicked or hung in inode.c
  created,         \* <<>>, or <<the inode sector of the file that exists>>
  free_map0,       \* history: <<the free map before the file was created>>
  fm_removed,      \* history: <<the free map when inode_remove was called>>
  file_data,       \* history: the bytes written to the file so far
  inode_last,      \* history: the last call of inode.h and what it returned
  inode_ops,       \* history: the number of calls of inode.h
  \* ---- virtual memory, vm/page.c, vm/frame.c, vm/swap.c, vm/mmap.c ----
  supp,            \* <<process, user page>> -> its struct supp_entry
  pagedir,         \* <<process, user page>> -> its page-table entry
  frame_table,     \* frame.c:14, the list of loaded entries, front first
  frame_data,      \* the content of the pages of the user pool
  palloc_used,     \* the pages of the user pool that are allocated
  swap_bitmap,     \* swap.c:12
  swap_block,      \* the swap device: sector -> data
  mfile,           \* the bytes of the file that is mapped
  mmap_table,      \* the struct mmap_file of the one mapping
  vm_panic,        \* the kernel panicked in vm/
  fault,           \* the page-fault handler that sleeps in an eviction
  vm_seen,         \* history: what a swapped page held while it was evicted
  mview,           \* history: the file as stores through the mapping left it
  vm_last,         \* history: the last call and what it did
  vm_ops,          \* history: the number of calls and user accesses
  \* ---- one victim selection, vm/frame.c ----
  scan,            \* the frame list a selection starts from, then its result
  \* ---- directories, filesys/directory.c, filesys/filesys.c ----
  fs_formatted,    \* do_format has run
  fs_tree,         \* history: the files and directories made, oldest first
  fs_last,         \* history: the last call of filesys.h and what it did
  fs_ops,          \* history: the calls of filesys.h that changed something
  fs_handles,      \* the struct file * and struct dir * callers hold
  \* ---- the threads inside the page-fault handler, vm/ ----
  thr,             \* process -> where its thread is in the handler
  evh,             \* history: what the evictions and the faults did
  \* ---- writers of the cache beside filesys_cache_disable, cache.c ----
  cw,              \* thread -> where it is in its write; history of the writes
  \* ---- one call of cache.c on a cache that is given ----
  drawn,           \* the cache given, the call made on it and what it gave
  \* ---- one call of path_split, filesys/path.c ----
  split            \* the path given, then what path_split stored

cacheVars == <<filesys_cache, evict_t, cache_enabled, sync_write, cache_ticks,
               fs_device, cache_panic, cache_enables, shadow, last_read>>

timerVars == <<ticks, sleeping_threads, sleeper, inserted, signal_log,
               timer_last>>

procVars == <<p_pc, p_blocked, p_exit_code, exec_ret, wait_ret, c_pc,
              c_has_parent, c_status, c_closed, load_signalled, child,
              in_children, proc_uaf, proc_panic>>

inodeVars == <<free_map, open_inodes, inode_panic, created, free_map0,
               fm_removed, file_data, inode_last, inode_ops>>

vmVars == <<supp, pagedir, frame_table, frame_data, palloc_used, swap_bitmap,
            swap_block, mfile, mmap_table, vm_panic, fault, vm_seen, mview,
            vm_last, vm_ops>>

dirVars == <<fs_formatted, fs_tree, fs_last, fs_ops, fs_handles>>

evictVars == <<thr, evh>>

vars == <<cacheVars, timerVars, procVars, inodeVars, vmVars, scan, dirVars,
          split, evictVars, cw, drawn>>

\* What the steps of one subsystem leave alone.
notCache == <<timerVars, procVars, inodeVars, vmVars, scan, dirVars, split,
             evictVars, cw, drawn>>
notInode == <<timerVars, procVars, vmVars, scan, dirVars, split,
             evictVars, cw, drawn>>
notTimer == <<cacheVars, procVars, inodeVars, vmVars, scan, dirVars, split,
             evictVars, cw, drawn>>
notProc == <<cacheVars, timerVars, inodeVars, vmVars, scan, dirVars, split,
             evictVars, cw, drawn>>
notVM == <<cacheVars, timerVars, procVars, inodeVars, scan, dirVars, split,
             evictVars, cw, drawn>>
notScan == <<cacheVars, timerVars, procVars, inodeVars, vmVars, dirVars,
            split, evictVars, cw, drawn>>
notDir == <<timerVars, procVars, vmVars, scan, split,
             evictVars, cw, drawn>>
notSplit == <<cacheVars, timerVars, procVars, inodeVars, vmVars, scan, dirVars,
             evictVars, cw, drawn>>
notEvict == <<cacheVars, timerVars, procVars, inodeVars, scan, dirVars, split,
             cw, drawn>>
notRace == <<timerVars, procVars, inodeVars, vmVars, scan, dirVars, split,
            evictVars, drawn>>
notDrawn == <<cacheVars, timerVars, procVars, inodeVars, vmVars, scan, dirVars,
             split, evictVars, cw>>

-----------------------------------------------------------------------------
(* Sizes.                                                                  *)

\* blocks[] entries of struct inode_disk (124 in inode.c:15, scaled).
INODE_BLOCK_COUNT == 2

\* One sector holds exactly one struct inode_disk: length, depth, is_dir,
\* blocks[INODE_BLOCK_COUNT], magic (inode.c:19-27, inode.c:184).
BLOCK_SECTOR_SIZE == INODE_BLOCK_COUNT + 4

\* Slots of the cache (64 in cache.c:11, scaled).
FILESYS_CACHE_SIZE == 2

\* Ticks between two periodic flushes (10000 in cache.c:14, scaled).
FILESYS_CACHE_TICKS == 2

\* Sectors of the file-system device in the cache specification.
DevSectors == 3

\* How often the cache is switched on (once, when the kernel boots).
MaxEnables == 1

\* Largest value of a data cell.
MaxByte == 2

Byte == 0..MaxByte
Sectors == 0..(DevSectors - 1)

\* F applied to the value of v, which is computed once.
Let(v, F(_)) == CHOOSE y \in {F(x) : x \in {v}} : TRUE

Min(a, b) == IF a < b THEN a ELSE b
Max(a, b) == IF a > b THEN a ELSE b

\* A sector whose cells all hold v.
Fill(v) == [i \in 1..BLOCK_SECTOR_SIZE |-> v]

\* memcpy (dst + ofs, src, bytes): cells ofs+1..ofs+bytes of dst replaced.
Patch(dst, ofs, src) ==
  [i \in 1..Len(dst) |->
     IF i > ofs /\ i <= ofs + Len(src) THEN src[i - ofs] ELSE dst[i]]

\* memcpy (buffer, src + ofs, bytes)
Slice(src, ofs, bytes) == [i \in 1..bytes |-> src[ofs + i]]

\* What a freshly attached device holds in sector s: stale, non-zero bytes
\* that differ between neighbouring sectors.
OrigData(s) == Fill(1 + (s % 2))

-----------------------------------------------------------------------------
(* The buffer cache as operators on a record                               *)
(*   c = [cache, t, dev, sync, en, ticks, panic].                          *)

\* cache.c:33: all slots zero, not in use.
EmptySlot == [sector |-> 0, in_use |-> FALSE, dirty |-> FALSE,
              access |-> FALSE, pin |-> FALSE, data |-> Fill(0)]

CacheSize(c) == Len(c.cache)

\* cache.c:58-67. The index of the slot holding SECTOR, 0 for NULL.
filesys_cache_lookup(c, sector) ==
  LET hits == {i \in 1..CacheSize(c) :
                 c.cache[i].in_use /\ c.cache[i].sector = sector}
  IN IF hits = {} THEN 0 ELSE CHOOSE i \in hits : \A j \in hits : i <= j

\* cache.c:70-78
filesys_cache_write_back(c, i) ==
  [c EXCEPT !.dev[c.cache[i].sector] = c.cache[i].data,
            !.cache[i].dirty = FALSE]

\* cache.c:90-116, the loop from T up to END.
RECURSIVE EvictLoop(_, _, _)
EvictLoop(c, t, end) ==
  IF t >= end THEN [c |-> [c EXCEPT !.t = t % CacheSize(c)], slot |-> 0,
        at |-> t]
  ELSE LET i == (t % CacheSize(c)) + 1
           elem == c.cache[i]
       IN IF ~elem.in_use THEN [c |-> [c EXCEPT !.t = t % CacheSize(c)], slot |-> i, at |-> t]
          ELSE IF elem.pin THEN EvictLoop(c, t + 1, end)
          ELSE IF elem.access
            THEN Let([c EXCEPT !.cache[i].access = FALSE],
                     LAMBDA w : EvictLoop(w, t + 1, end))
          ELSE LET wb == IF elem.dirty THEN filesys_cache_write_back(c, i)
                         ELSE c
               IN [c |-> [wb EXCEPT !.cache[i].in_use = FALSE,
                                    !.t = t % CacheSize(c)],
                   slot |-> i, at |-> t]

\* A clock that takes the slot without writing its dirty data back.
RECURSIVE EvictLoopDiscard(_, _, _)
EvictLoopDiscard(c, t, end) ==
  IF t >= end THEN [c |-> [c EXCEPT !.t = t % CacheSize(c)], slot |-> 0,
        at |-> t]
  ELSE LET i == (t % CacheSize(c)) + 1
           elem == c.cache[i]
       IN IF ~elem.in_use THEN [c |-> [c EXCEPT !.t = t % CacheSize(c)], slot |-> i, at |-> t]
          ELSE IF elem.pin THEN EvictLoopDiscard(c, t + 1, end)
          ELSE IF elem.access
            THEN Let([c EXCEPT !.cache[i].access = FALSE],
                     LAMBDA w : EvictLoopDiscard(w, t + 1, end))
          ELSE [c |-> [c EXCEPT !.cache[i].in_use = FALSE,
                                !.cache[i].dirty = FALSE,
                                !.t = t % CacheSize(c)],
                slot |-> i, at |-> t]

filesys_cache_evict_discard(c) ==
  LET t0 == c.t % CacheSize(c)
  IN Let(EvictLoopDiscard(c, t0, t0 + CacheSize(c) * 2),
         LAMBDA r : [c |-> r.c, slot |-> r.slot,
                     seen |-> IF r.slot = 0 THEN r.at - t0
                              ELSE r.at - t0 + 1])

\* A clock that goes round the slots once only.
filesys_cache_evict_one_lap(c) ==
  LET t0 == c.t % CacheSize(c)
  IN Let(EvictLoop(c, t0, t0 + CacheSize(c)),
         LAMBDA r : [c |-> r.c, slot |-> r.slot,
                     seen |-> IF r.slot = 0 THEN r.at - t0
                              ELSE r.at - t0 + 1])

\* cache.c:82-119.  seen is the number of slots the loop has examined.
filesys_cache_evict(c) ==
  LET t0 == c.t % CacheSize(c)
  IN Let(EvictLoop(c, t0, t0 + CacheSize(c) * 2),
         LAMBDA r : [c |-> r.c, slot |-> r.slot,
                     seen |-> IF r.slot = 0 THEN r.at - t0
                              ELSE r.at - t0 + 1])

\* cache.c:127-152. slot = 0 stands for the NULL (false) result.
filesys_cache_access(c, sector, read) ==
  Let(filesys_cache_lookup(c, sector),
      LAMBDA found :
        IF found # 0
          THEN [c |-> [c EXCEPT !.cache[found].access = TRUE],
                slot |-> found]
          ELSE Let(filesys_cache_evict(c),
                   LAMBDA ev :
                     IF ev.slot = 0 THEN ev
                     ELSE [c |-> [ev.c EXCEPT !.cache[ev.slot] =
                                   [sector |-> sector, in_use |-> TRUE,
                                    dirty |-> FALSE, access |-> TRUE,
                                    pin |-> FALSE,
                                    data |-> IF read THEN ev.c.dev[sector]
                                             ELSE ev.c.cache[ev.slot].data]],
                           slot |-> ev.slot]))

\* cache.c:156-166
RECURSIVE SyncLoop(_, _)
SyncLoop(c, i) ==
  IF i > CacheSize(c) THEN c
  ELSE Let(IF c.cache[i].dirty THEN filesys_cache_write_back(c, i) ELSE c,
           LAMBDA w : SyncLoop(w, i + 1))

filesys_sync_nolock(c) == SyncLoop(c, 1)

\* cache.c:169-173
filesys_prefetch(c, sector) == filesys_cache_access(c, sector, TRUE).c

\* cache.c:176-185
filesys_sync(c) == IF c.en THEN filesys_sync_nolock(c) ELSE c

\* block_size (fs_device)
block_size(c) == Cardinality(DOMAIN c.dev)

\* cache.c:192-220. Returns the new state and the bytes copied to BUFFER.
filesys_block_read(c, sector) ==
  IF ~c.en THEN [c |-> c, buf |-> c.dev[sector]]
  ELSE Let(filesys_cache_access(c, sector, TRUE),
           LAMBDA a :
             IF a.slot = 0 THEN [c |-> a.c, buf |-> a.c.dev[sector]]
             ELSE Let(IF sector + 1 < block_size(a.c)
                        THEN filesys_prefetch(a.c, sector + 1)
                        ELSE a.c,
                      LAMBDA p : [c |-> p, buf |-> p.cache[a.slot].data]))

\* cache.c:224-251
filesys_block_read_bytes(c, sector, ofs, bytes) ==
  IF ~c.en THEN [c |-> c, buf |-> Slice(c.dev[sector], ofs, bytes)]
  ELSE Let(filesys_cache_access(c, sector, TRUE),
           LAMBDA a :
             IF a.slot = 0
               THEN [c |-> [a.c EXCEPT !.panic = TRUE], buf |-> <<>>]
               ELSE [c |-> a.c,
                     buf |-> Slice(a.c.cache[a.slot].data, ofs, bytes)])

\* cache.c:274-278 and 308-312
SyncWrite(c) ==
  IF c.sync THEN [filesys_sync_nolock(c) EXCEPT !.sync = FALSE] ELSE c

\* cache.c:264: block_write (fs_device, sector, buffer)
block_write_raw(c, sector, buffer) == [c EXCEPT !.dev[sector] = buffer]

\* cache.c:268-280, what filesys_block_write does with filesys_cache_lock
\* held.  A NULL elem is dereferenced at line 271.
filesys_block_write_cached(c, sector, buffer) ==
  Let(filesys_cache_access(c, sector, FALSE),
      LAMBDA a :
        IF a.slot = 0 THEN [a.c EXCEPT !.panic = TRUE]
        ELSE Let([a.c EXCEPT !.cache[a.slot].data = buffer,
                             !.cache[a.slot].dirty = TRUE],
                 LAMBDA w : SyncWrite(w)))

\* cache.c:259-281
filesys_block_write(c, sector, buffer) ==
  IF ~c.en THEN block_write_raw(c, sector, buffer)
  ELSE filesys_block_write_cached(c, sector, buffer)

\* cache.c:292-298: the sector goes through a bounce buffer.
block_write_bytes_raw(c, sector, buffer, ofs) ==
  [c EXCEPT !.dev[sector] = Patch(c.dev[sector], ofs, buffer)]

\* cache.c:302-314, what filesys_block_write_bytes does with
\* filesys_cache_lock held.
filesys_block_write_bytes_cached(c, sector, buffer, ofs) ==
  Let(filesys_cache_access(c, sector, TRUE),
      LAMBDA a :
        IF a.slot = 0 THEN [a.c EXCEPT !.panic = TRUE]
        ELSE Let([a.c EXCEPT
                    !.cache[a.slot].data =
                      Patch(a.c.cache[a.slot].data, ofs, buffer),
                    !.cache[a.slot].dirty = TRUE],
                 LAMBDA w : SyncWrite(w)))

\* cache.c:286-315
filesys_block_write_bytes(c, sector, buffer, ofs) ==
  IF ~c.en THEN block_write_bytes_raw(c, sector, buffer, ofs)
  ELSE filesys_block_write_bytes_cached(c, sector, buffer, ofs)

\* cache.c:318-327
filesys_cache_enable(c) == [c EXCEPT !.en = TRUE]

\* cache.c:330-342
filesys_cache_disable(c) ==
  IF c.en THEN [filesys_sync_nolock(c) EXCEPT !.en = FALSE] ELSE c

\* cache.c:344-350
filesys_cache_tick(c) ==
  LET n == (c.ticks + 1) % FILESYS_CACHE_TICKS
  IN [c EXCEPT !.ticks = n, !.sync = IF n = 0 THEN TRUE ELSE c.sync]

-----------------------------------------------------------------------------
(* The cache specification: the calls of cache.h on arbitrary sectors.     *)

CacheState == [cache |-> filesys_cache, t |-> evict_t, dev |-> fs_device,
               sync |-> sync_write, en |-> cache_enabled,
               ticks |-> cache_ticks, panic |-> cache_panic]

SetCache(c) ==
  /\ filesys_cache' = c.cache
  /\ evict_t' = c.t
  /\ fs_device' = c.dev
  /\ sync_write' = c.sync
  /\ cache_enabled' = c.en
  /\ cache_ticks' = c.ticks
  /\ cache_panic' = c.panic

NoRead == [op |-> "none", got |-> <<>>, want |-> <<>>]

\* The buffers callers write: whole sectors, and a one-cell piece at the end
\* of a sector.
WriteBufs == {Fill(v) : v \in 1..MaxByte}
Pieces == {<<MaxByte>>}
PieceOfs == {BLOCK_SECTOR_SIZE - 1}

Slots == 1..FILESYS_CACHE_SIZE

\* The dirty slots this step takes away from their sector.
TakenDirty ==
  {i \in Slots :
     /\ filesys_cache[i].in_use /\ filesys_cache[i].dirty
     /\ \/ ~filesys_cache'[i].in_use
        \/ filesys_cache'[i].sector # filesys_cache[i].sector}

\* History of a write: if it took a dirty slot, what the device holds for
\* the sector of that slot afterwards and what the slot held.
WriteRecord ==
  IF TakenDirty = {} THEN NoRead
  ELSE Let(CHOOSE i \in TakenDirty : TRUE,
           LAMBDA i : [op |-> "evict",
                       got |-> fs_device'[filesys_cache[i].sector],
                       want |-> filesys_cache[i].data])

BlockRead(s) ==
  /\ ~cache_panic
  /\ LET r == filesys_block_read(CacheState, s)
     IN /\ SetCache(r.c)
        /\ last_read' = [op |-> "read", got |-> r.buf, want |-> shadow[s]]
  /\ UNCHANGED <<shadow, cache_enables, notCache>>

BlockReadBytes(s, ofs) ==
  /\ ~cache_panic
  /\ LET r == filesys_block_read_bytes(CacheState, s, ofs, 1)
     IN /\ SetCache(r.c)
        /\ last_read' = [op |-> "read_bytes", got |-> r.buf,
                         want |-> Slice(shadow[s], ofs, 1)]
  /\ UNCHANGED <<shadow, cache_enables, notCache>>

BlockWrite(s, buf) ==
  /\ ~cache_panic
  /\ SetCache(filesys_block_write(CacheState, s, buf))
  /\ shadow' = [shadow EXCEPT ![s] = buf]
  /\ last_read' = WriteRecord
  /\ UNCHANGED <<cache_enables, notCache>>

BlockWriteBytes(s, ofs, buf) ==
  /\ ~cache_panic
  /\ SetCache(filesys_block_write_bytes(CacheState, s, buf, ofs))
  /\ shadow' = [shadow EXCEPT ![s] = Patch(shadow[s], ofs, buf)]
  /\ last_read' = WriteRecord
  /\ UNCHANGED <<cache_enables, notCache>>

CacheSync ==
  /\ ~cache_panic
  /\ SetCache(filesys_sync(CacheState))
  /\ last_read' = [NoRead EXCEPT !.op = "sync"]
  /\ UNCHANGED <<shadow, cache_enables, notCache>>

CacheEnable ==
  /\ ~cache_panic
  /\ ~cache_enabled
  /\ cache_enables < MaxEnables
  /\ SetCache(filesys_cache_enable(CacheState))
  /\ cache_enables' = cache_enables + 1
  /\ last_read' = NoRead
  /\ UNCHANGED <<shadow, notCache>>

CacheDisable ==
  /\ ~cache_panic
  /\ cache_enabled
  /\ SetCache(filesys_cache_disable(CacheState))
  /\ last_read' = NoRead
  /\ UNCHANGED <<shadow, cache_enables, notCache>>

CacheTick ==
  /\ ~cache_panic
  /\ SetCache(filesys_cache_tick(CacheState))
  /\ last_read' = NoRead
  /\ UNCHANGED <<shadow, cache_enables, notCache>>

NextCache ==
  \/ \E s \in Sectors : BlockRead(s)
  \/ \E s \in Sectors, ofs \in PieceOfs : BlockReadBytes(s, ofs)
  \/ \E s \in Sectors, buf \in WriteBufs : BlockWrite(s, buf)
  \/ \E s \in Sectors, ofs \in PieceOfs, buf \in Pieces :
       BlockWriteBytes(s, ofs, buf)
  \/ CacheSync
  \/ CacheEnable
  \/ CacheDisable
  \/ CacheTick

-----------------------------------------------------------------------------
(* One call of cache.c on a cache that is given: the slots are drawn with  *)
(* their flags, the pin flag included, and one function is applied.        *)

\* The slots that can be given: slot i, if in use, holds sector i - 1, so
\* that the last sector of the device is in no slot; a dirty slot holds
\* bytes the device does not.
DrawnSlots(i) ==
  {EmptySlot} \cup
  {[sector |-> i - 1, in_use |-> TRUE, dirty |-> d, access |-> a, pin |-> pn,
    data |-> IF d THEN Fill(0) ELSE OrigData(i - 1)] :
     d \in BOOLEAN, a \in BOOLEAN, pn \in BOOLEAN}

DrawnCaches ==
  {f \in [Slots -> UNION {DrawnSlots(i) : i \in Slots}] :
     \A i \in Slots : f[i] \in DrawnSlots(i)}

NoCall == [op |-> "none", sector |-> 0, slot |-> 0, seen |-> 0, buf |-> <<>>]

NoDrawn == [c |-> <<>>, out |-> <<>>, call |-> NoCall]

DrawnInputs ==
  {[c |-> [cache |-> [i \in Slots |-> f[i]], t |-> t,
           dev |-> [s \in Sectors |-> OrigData(s)], sync |-> FALSE,
           en |-> TRUE, ticks |-> 0, panic |-> FALSE],
    out |-> <<>>, call |-> NoCall] : f \in DrawnCaches, t \in 0..(FILESYS_CACHE_SIZE - 1)}

Called(op, s, c, slot, seen, buf) ==
  /\ drawn.call.op = "none"
  /\ drawn' = [drawn EXCEPT !.out = c,
                            !.call = [op |-> op, sector |-> s, slot |-> slot,
                                      seen |-> seen, buf |-> buf]]
  /\ UNCHANGED notDrawn

\* filesys_cache_evict ()
DrawnEvict ==
  \E r \in {filesys_cache_evict(drawn.c)} :
    Called("evict", 0, r.c, r.slot, r.seen, <<>>)

\* filesys_block_read (s, buffer)
DrawnRead(s) ==
  \E r \in {filesys_block_read(drawn.c, s)} :
    Called("read", s, r.c, 0, 0, r.buf)

\* filesys_block_read_bytes (s, buffer, ofs, 1)
DrawnReadBytes(s, ofs) ==
  \E r \in {filesys_block_read_bytes(drawn.c, s, ofs, 1)} :
    Called("read_bytes", s, r.c, 0, 0, r.buf)

\* filesys_block_write (s, buffer)
DrawnWrite(s, buf) ==
  \E c \in {filesys_block_write(drawn.c, s, buf)} :
    Called("write", s, c, 0, 0, buf)

\* filesys_block_write_bytes (s, buffer, ofs, 1)
DrawnWriteBytes(s, ofs, buf) ==
  \E c \in {filesys_block_write_bytes(drawn.c, s, buf, ofs)} :
    Called("write_bytes", s, c, 0, 0, buf)

NextDrawn ==
  \/ DrawnEvict
  \/ \E s \in Sectors : DrawnRead(s)
  \/ \E s \in Sectors, ofs \in PieceOfs : DrawnReadBytes(s, ofs)
  \/ \E s \in Sectors, buf \in WriteBufs : DrawnWrite(s, buf)
  \/ \E s \in Sectors, ofs \in PieceOfs, buf \in Pieces :
       DrawnWriteBytes(s, ofs, buf)

-----------------------------------------------------------------------------
(* Writers beside filesys_cache_disable.  A writer reads cache_enabled     *)
(* before it takes filesys_cache_lock (cache.c:262, 290), and a thread     *)
(* that holds the lock sleeps in block_write, so other threads run between *)
(* the test of a writer and what it does next.  What a thread does with    *)
(* the lock held is one step for the others.                               *)

\* Threads that write.
NWriters == 2
Writers == 1..NWriters

\* Calls of filesys_block_write and filesys_block_write_bytes in one run.
MaxRaceWrites == 3

\* pc is "idle", "lock" (cache_enabled was read as true, the thread is at
\* lock_acquire) or "raw" (it was read as false).  cached[s] is what the
\* slot of sector s held when the latest write of s returned, if that write
\* went through the cache, and <<>> otherwise.  late: a writer filled a slot
\* after the cache was disabled.
NoWriter == [pc |-> "idle", bytes |-> FALSE, sector |-> 0, buf |-> <<>>,
             ofs |-> 0]
NoRace == [wr |-> [w \in Writers |-> NoWriter],
           cached |-> [s \in Sectors |-> <<>>], calls |-> 0, late |-> FALSE]

\* cache.c:262, 290: if (!cache_enabled)
WriterTest(w, bytes, s, buf, ofs) ==
  /\ ~cache_panic
  /\ cw.wr[w].pc = "idle"
  /\ cw.calls < MaxRaceWrites
  /\ cw' = [cw EXCEPT !.wr[w] = [pc |-> IF cache_enabled THEN "lock"
                                        ELSE "raw",
                                 bytes |-> bytes, sector |-> s, buf |-> buf,
                                 ofs |-> ofs],
                      !.calls = @ + 1]
  /\ UNCHANGED <<cacheVars, notRace>>

WriteTest(w, s, buf) == WriterTest(w, FALSE, s, buf, 0)

WriteBytesTest(w, s, ofs, buf) == WriterTest(w, TRUE, s, buf, ofs)

\* What the cache holds for SECTOR, <<>> if it has no slot.
SlotData(cache, sector) ==
  Let(filesys_cache_lookup([cache |-> cache], sector),
      LAMBDA i : IF i = 0 THEN <<>> ELSE cache[i].data)

\* The write has returned.
WriterReturns(w, how) ==
  /\ shadow' = [shadow EXCEPT ![cw.wr[w].sector] =
                  IF cw.wr[w].bytes
                    THEN Patch(@, cw.wr[w].ofs, cw.wr[w].buf)
                    ELSE cw.wr[w].buf]
  /\ cw' = [cw EXCEPT !.wr[w] = NoWriter,
                      !.cached[cw.wr[w].sector] =
                         IF how = "cache"
                           THEN SlotData(filesys_cache', cw.wr[w].sector)
                           ELSE <<>>,
                      !.late = @ \/ (how = "cache" /\ ~cache_enabled)]
  /\ last_read' = NoRead
  /\ UNCHANGED <<cache_enables, notRace>>

\* cache.c:264 and 292-298: the write to the device.
WriteRaw(w) ==
  /\ ~cache_panic
  /\ cw.wr[w].pc = "raw"
  /\ SetCache(IF cw.wr[w].bytes
                THEN block_write_bytes_raw(CacheState, cw.wr[w].sector,
                                           cw.wr[w].buf, cw.wr[w].ofs)
                ELSE block_write_raw(CacheState, cw.wr[w].sector,
                                     cw.wr[w].buf))
  /\ WriterReturns(w, "raw")

\* cache.c:266-280 and 300-314: lock_acquire ... lock_release.
WriteLocked(w) ==
  /\ ~cache_panic
  /\ cw.wr[w].pc = "lock"
  /\ SetCache(IF cw.wr[w].bytes
                THEN filesys_block_write_bytes_cached(CacheState,
                       cw.wr[w].sector, cw.wr[w].buf, cw.wr[w].ofs)
                ELSE filesys_block_write_cached(CacheState, cw.wr[w].sector,
                                                cw.wr[w].buf))
  /\ WriterReturns(w, "cache")

NextRace ==
  \/ \E w \in Writers, s \in Sectors, buf \in WriteBufs : WriteTest(w, s, buf)
  \/ \E w \in Writers, s \in Sectors, ofs \in PieceOfs, buf \in Pieces :
       WriteBytesTest(w, s, ofs, buf)
  \/ \E w \in Writers : WriteRaw(w)
  \/ \E w \in Writers : WriteLocked(w)
  \/ CacheEnable
  \/ CacheDisable
  \/ CacheTick

-----------------------------------------------------------------------------
(* The sleep queue, devices/timer.c.                                       *)

\* Threads that call timer_sleep.
NSleepers == 3
\* Longest sleep, in ticks.
MaxSleep == 2
\* Timer interrupts in one run.
MaxTicks == 4

SleeperIds == 1..NSleepers

\* A thread outside timer_sleep.  pc: "idle", "init" (timer_ticks was read,
\* timer.c:187), "blocked" (in sema_down, timer.c:91), "woken" (sema_up done).
\* call is the tick count when timer_sleep was entered, k its argument, seq
\* the rank of the insertion and signalled the tick count at sema_up.
IdleSleeper == [pc |-> "idle", wake_time |-> 0, call |-> 0, k |-> 0,
                seq |-> 0, signalled |-> 0]

sleeping_thread_less(lhs, rhs) == sleeper[lhs].wake_time < sleeper[rhs].wake_time

\* list_insert_ordered: before the first element that elem is less than.
list_insert_ordered(list, elem, wake) ==
  LET later == {i \in 1..Len(list) : wake < sleeper[list[i]].wake_time}
      at == IF later = {} THEN Len(list) + 1
            ELSE CHOOSE i \in later : \A j \in later : i <= j
  IN SubSeq(list, 1, at - 1) \o <<elem>> \o SubSeq(list, at, Len(list))

\* The elements sleeping_threads_tick removes: it walks from the front and
\* stops at the first sleeper that is not ready.
RECURSIVE ReadyPrefix(_, _)
ReadyPrefix(list, now) ==
  IF list # <<>> /\ now >= sleeper[Head(list)].wake_time
    THEN 1 + ReadyPrefix(Tail(list), now)
    ELSE 0

\* timer_sleep up to sleeping_thread_init: start = timer_ticks (), then
\* wake_time = start + sleep_ticks.  Interrupts are on.
timer_sleep(t, k) ==
  /\ sleeper[t].pc = "idle"
  /\ sleeper' = [sleeper EXCEPT ![t] = [IdleSleeper EXCEPT
                   !.pc = "init", !.wake_time = ticks + k,
                   !.call = ticks, !.k = k]]
  /\ timer_last' = "call"
  /\ UNCHANGED <<ticks, sleeping_threads, inserted, signal_log, notTimer>>

\* sleeping_threads_wait: with interrupts off, insert and block in sema_down.
sleeping_threads_wait(t) ==
  /\ sleeper[t].pc = "init"
  /\ sleeping_threads' =
       list_insert_ordered(sleeping_threads, t, sleeper[t].wake_time)
  /\ inserted' = inserted + 1
  /\ sleeper' = [sleeper EXCEPT ![t].pc = "blocked", ![t].seq = inserted + 1]
  /\ timer_last' = "insert"
  /\ UNCHANGED <<ticks, signal_log, notTimer>>

\* timer_interrupt: ticks++, then sleeping_threads_tick.
timer_interrupt ==
  /\ ticks < MaxTicks
  /\ LET now == ticks + 1
         n == ReadyPrefix(sleeping_threads, now)
         woken == SubSeq(sleeping_threads, 1, n)
         ids == {woken[i] : i \in 1..n}
     IN /\ ticks' = now
        /\ sleeping_threads' = SubSeq(sleeping_threads, n + 1,
                                      Len(sleeping_threads))
        /\ sleeper' = [t \in SleeperIds |->
                         IF t \in ids
                           THEN [sleeper[t] EXCEPT !.pc = "woken",
                                                   !.signalled = now]
                           ELSE sleeper[t]]
        /\ signal_log' = signal_log \o woken
  /\ timer_last' = "tick"
  /\ UNCHANGED <<inserted, notTimer>>

NextTimer ==
  \/ \E t \in SleeperIds, k \in 1..MaxSleep : timer_sleep(t, k)
  \/ \E t \in SleeperIds : sleeping_threads_wait(t)
  \/ timer_interrupt

-----------------------------------------------------------------------------
(* exec, wait and exit: userprog/process.c and userprog/syscall.c.         *)
(* One parent and the child it creates; every numbered statement that      *)
(* touches the child's struct process is one step, so that the two threads *)
(* interleave as the scheduler allows.                                     *)

\* The child's pid; PID_ERROR is process.h:6.
ChildPid == 1
PID_ERROR == -1

\* The statuses a child passes to exit.
ExitCodes == {0, 42}

\* process_wait calls the parent makes on the child's pid.
MaxWaits == 2

\* init_process (process.c:694-712): exit code -1, semaphores 0, no parent.
\* parent is TRUE when p->parent is not NULL; freed when free (t->process)
\* has run (process.c:209-210).
NewProcess == [parent |-> FALSE, load_success |-> FALSE, exit_code |-> -1,
               load_sema |-> 0, wait_sema |-> 0, exit_sema |-> 0,
               freed |-> FALSE]

\* The parent's steps inside exec, and inside process_wait.
ExecPcs == {"pe_parent", "pe_push", "ex_find", "ex_load", "ex_check",
            "ex_up1", "ex_up2", "ex_down1", "ex_down2"}
WaitPcs == {"w_find", "w_down1", "w_read", "w_up1", "w_down2", "w_up2"}
\* The child's steps inside process_exit, and after it.
ExitPcs == {"pe_read", "pe_up1", "pe_down1", "pe_remove", "pe_teardown",
            "pe_up2", "pe_down2", "pe_free", "dead"}

parentLocals == <<p_exit_code, exec_ret, wait_ret>>
childLocals == <<c_pc, c_has_parent, c_status, c_closed, load_signalled>>

\* A use of the child's record after it was freed is undefined: the access
\* faults (the kernel panics) or goes on with whatever the memory holds.
UseAfterFree(to) ==
  /\ child.freed
  /\ proc_uaf' = TRUE
  /\ \/ p_pc' = "panic" /\ proc_panic' = TRUE
     \/ p_pc' = to /\ UNCHANGED proc_panic

\* The parent sleeps in the waiters list of semaphore sem of the child's
\* record: load_sema inside exec (syscall.c:434), wait_sema elsewhere.
SleepsOn(sem) ==
  /\ p_blocked
  /\ sem = IF p_pc = "ex_load" THEN "load_sema" ELSE "wait_sema"

\* sema_down by the parent on a semaphore of the child's record.  A parent
\* that was woken runs again and looks at the semaphore, freed or not.
ParentSemaDown(sem, from, to) ==
  /\ p_pc = from
  /\ \/ /\ ~child.freed /\ child[sem] > 0
        /\ child' = [child EXCEPT ![sem] = @ - 1]
        /\ p_pc' = to /\ p_blocked' = FALSE
        /\ UNCHANGED <<proc_uaf, proc_panic>>
     \/ /\ ~child.freed /\ child[sem] = 0 /\ ~p_blocked
        /\ p_blocked' = TRUE
        /\ UNCHANGED <<child, p_pc, proc_uaf, proc_panic>>
     \/ /\ ~p_blocked
        /\ \/ UseAfterFree(to)
           \/ UseAfterFree("hung")
        /\ UNCHANGED <<child, p_blocked>>
  /\ UNCHANGED <<parentLocals, childLocals, in_children, notProc>>

\* sema_up by the parent on a semaphore of the child's record.
ParentSemaUp(sem, from, to) ==
  /\ p_pc = from
  /\ \/ /\ ~child.freed
        /\ child' = [child EXCEPT ![sem] = @ + 1]
        /\ p_pc' = to
        /\ UNCHANGED <<proc_uaf, proc_panic>>
     \/ UseAfterFree(to) /\ UNCHANGED child
  /\ UNCHANGED <<p_blocked, parentLocals, childLocals, in_children, notProc>>

\* process_execute up to thread_create (process.c:59-67): the child thread
\* exists, with a fresh process record, and may run.
thread_create ==
  /\ p_pc = "start" /\ c_pc = "none"
  /\ p_pc' = "pe_parent" /\ c_pc' = "start"
  /\ UNCHANGED <<p_blocked, parentLocals, c_has_parent, c_status, c_closed,
                 load_signalled, child, in_children, proc_uaf, proc_panic,
                 notProc>>

\* process.c:70-74: thread_find, ASSERT (t != NULL), t->process->parent = ...
\* Once the child has freed its record t->process is NULL, or t itself is.
process_execute_parent ==
  /\ p_pc = "pe_parent"
  /\ IF child.freed
       THEN /\ p_pc' = "panic" /\ proc_panic' = TRUE /\ UNCHANGED child
       ELSE /\ child' = [child EXCEPT !.parent = TRUE]
            /\ p_pc' = "pe_push" /\ UNCHANGED proc_panic
  /\ UNCHANGED <<p_blocked, parentLocals, childLocals, in_children, proc_uaf,
                 notProc>>

\* process.c:75: list_push_back (&cur->process->chilren, &t->process->child_elem)
process_execute_push ==
  /\ p_pc = "pe_push"
  /\ IF child.freed
       THEN /\ p_pc' = "panic" /\ proc_panic' = TRUE /\ UNCHANGED in_children
       ELSE /\ in_children' = TRUE
            /\ p_pc' = "ex_find" /\ UNCHANGED proc_panic
  /\ UNCHANGED <<p_blocked, parentLocals, childLocals, child, proc_uaf,
                 notProc>>

\* syscall.c:430-432: t = thread_find (tid); p = t->process; NULL gives
\* PID_ERROR.  A child that has gone altogether makes t NULL.
exec_find ==
  /\ p_pc = "ex_find"
  /\ IF child.freed
       THEN \/ /\ p_pc' = "ready" /\ exec_ret' = <<PID_ERROR>>
               /\ UNCHANGED proc_panic
            \/ /\ p_pc' = "panic" /\ proc_panic' = TRUE
               /\ UNCHANGED exec_ret
       ELSE p_pc' = "ex_load" /\ UNCHANGED <<exec_ret, proc_panic>>
  /\ UNCHANGED <<p_blocked, p_exit_code, wait_ret, childLocals, child,
                 in_children, proc_uaf, notProc>>

\* syscall.c:434: sema_down (&p->load_sema)
exec_load ==
  /\ p_pc = "ex_load"
  /\ ParentSemaDown("load_sema", "ex_load", "ex_check")

\* syscall.c:435 and 443-444: if (!p->load_success) ... else return pid
exec_check ==
  /\ p_pc = "ex_check"
  /\ \E ok \in BOOLEAN :
       /\ IF child.freed
            THEN proc_uaf' = TRUE
            ELSE ok = child.load_success /\ UNCHANGED proc_uaf
       /\ IF ok THEN p_pc' = "ready" /\ exec_ret' = <<ChildPid>>
                ELSE p_pc' = "ex_up1" /\ UNCHANGED exec_ret
  /\ UNCHANGED <<p_blocked, p_exit_code, wait_ret, childLocals, child,
                 in_children, proc_panic, notProc>>

\* syscall.c:437-440: the parent plays both halves of the handshake.
exec_fail_up1 ==
  /\ p_pc = "ex_up1"
  /\ ParentSemaUp("exit_sema", "ex_up1", "ex_up2")
exec_fail_up2 ==
  /\ p_pc = "ex_up2"
  /\ ParentSemaUp("exit_sema", "ex_up2", "ex_down1")
exec_fail_down1 ==
  /\ p_pc = "ex_down1"
  /\ ParentSemaDown("wait_sema", "ex_down1", "ex_down2")
exec_fail_down2 ==
  /\ p_pc = "ex_down2"
  /\ ParentSemaDown("wait_sema", "ex_down2", "ex_ret")

\* syscall.c:441: return PID_ERROR
exec_fail_return ==
  /\ p_pc = "ex_ret"
  /\ p_pc' = "ready" /\ exec_ret' = <<PID_ERROR>>
  /\ UNCHANGED <<p_blocked, p_exit_code, wait_ret, childLocals, child,
                 in_children, proc_uaf, proc_panic, notProc>>

\* wait (syscall.c:454-461) and process_find (process.c:644-660): walk the
\* chilren list.  A list element inside a freed record is a dangling
\* reference: the walk faults, misses, or matches.
process_find ==
  /\ p_pc = "ready" /\ exec_ret = <<ChildPid>> /\ Len(wait_ret) < MaxWaits
  /\ IF ~in_children
       THEN /\ wait_ret' = Append(wait_ret, -1)
            /\ UNCHANGED <<p_pc, proc_uaf, proc_panic>>
       ELSE IF ~child.freed
         THEN /\ p_pc' = "w_down1"
              /\ UNCHANGED <<wait_ret, proc_uaf, proc_panic>>
         ELSE \/ UseAfterFree("w_down1") /\ UNCHANGED wait_ret
              \/ /\ proc_uaf' = TRUE /\ wait_ret' = Append(wait_ret, -1)
                 /\ UNCHANGED <<p_pc, proc_panic>>
  /\ UNCHANGED <<p_blocked, p_exit_code, exec_ret, childLocals, child,
                 in_children, notProc>>

\* process.c:129: sema_down (&p->wait_sema)
process_wait_down1 ==
  /\ p_pc = "w_down1"
  /\ ParentSemaDown("wait_sema", "w_down1", "w_read")

\* process.c:130: int exit_code = p->exit_code
process_wait_read ==
  /\ p_pc = "w_read"
  /\ \E v \in ExitCodes \cup {-1} :
       /\ IF child.freed
            THEN proc_uaf' = TRUE
            ELSE v = child.exit_code /\ UNCHANGED proc_uaf
       /\ p_exit_code' = v
  /\ p_pc' = "w_up1"
  /\ UNCHANGED <<p_blocked, exec_ret, wait_ret, childLocals, child,
                 in_children, proc_panic, notProc>>

\* process.c:131, 133: sema_up (&p->exit_sema); sema_down (&p->wait_sema)
process_wait_up1 ==
  /\ p_pc = "w_up1"
  /\ ParentSemaUp("exit_sema", "w_up1", "w_down2")
process_wait_down2 ==
  /\ p_pc = "w_down2"
  /\ ParentSemaDown("wait_sema", "w_down2", "w_up2")
\* process.c:134: sema_up (&p->exit_sema)
process_wait_up2 ==
  /\ p_pc = "w_up2"
  /\ ParentSemaUp("exit_sema", "w_up2", "w_ret")

\* process.c:136: return exit_code
process_wait_return ==
  /\ p_pc = "w_ret"
  /\ p_pc' = "ready" /\ wait_ret' = Append(wait_ret, p_exit_code)
  /\ UNCHANGED <<p_blocked, p_exit_code, exec_ret, childLocals, child,
                 in_children, proc_uaf, proc_panic, notProc>>

\* The parent's own process_exit: it has no parent to shake hands with and
\* sets child->parent = NULL for every element of chilren
\* (process.c:179-186).
parent_exit ==
  /\ p_pc = "ready"
  /\ IF in_children /\ child.freed
       THEN UseAfterFree("done") /\ UNCHANGED child
       ELSE /\ child' = IF in_children THEN [child EXCEPT !.parent = FALSE]
                        ELSE child
            /\ p_pc' = "done" /\ UNCHANGED <<proc_uaf, proc_panic>>
  /\ UNCHANGED <<p_blocked, parentLocals, childLocals, in_children, notProc>>

\* start_process, process.c:94: p->load_success = load (...)
start_process_load ==
  /\ c_pc = "start"
  /\ \E ok \in BOOLEAN : child' = [child EXCEPT !.load_success = ok]
  /\ c_pc' = "load_up"
  /\ UNCHANGED <<p_pc, p_blocked, parentLocals, c_has_parent, c_status,
                 c_closed, load_signalled, in_children, proc_uaf, proc_panic,
                 notProc>>

\* process.c:95-100: sema_up (&p->load_sema); a failed load ends in
\* thread_exit, that is, in process_exit with the initial exit code -1.
start_process_up ==
  /\ c_pc = "load_up"
  /\ child' = [child EXCEPT !.load_sema = @ + 1]
  /\ load_signalled' = TRUE
  /\ c_pc' = IF child.load_success THEN "user" ELSE "pe_read"
  /\ c_status' = IF child.load_success THEN c_status ELSE <<child.exit_code>>
  /\ p_blocked' = IF SleepsOn("load_sema") THEN FALSE ELSE p_blocked
  /\ UNCHANGED <<p_pc, parentLocals, c_has_parent, c_closed,
                 in_children, proc_uaf, proc_panic, notProc>>

\* exit (status), syscall.c:407-416: p->exit_code = status; thread_exit ().
exit(status) ==
  /\ c_pc = "user"
  /\ child' = [child EXCEPT !.exit_code = status]
  /\ c_status' = <<status>>
  /\ c_pc' = "pe_read"
  /\ UNCHANGED <<p_pc, p_blocked, parentLocals, c_has_parent, c_closed,
                 load_signalled, in_children, proc_uaf, proc_panic, notProc>>

\* process_exit, process.c:168: bool has_parent = p->parent != NULL
process_exit_has_parent ==
  /\ c_pc = "pe_read"
  /\ c_has_parent' = child.parent
  /\ c_pc' = IF child.parent THEN "pe_up1" ELSE "pe_teardown"
  /\ UNCHANGED <<p_pc, p_blocked, parentLocals, c_status, c_closed,
                 load_signalled, child, in_children, proc_uaf, proc_panic,
                 notProc>>

\* A semaphore operation of the child on its own record.  sema_up takes a
\* sleeping parent out of the semaphore's waiters list.
ChildSema(sem, d, from, to) ==
  /\ c_pc = from
  /\ child[sem] + d >= 0
  /\ child' = [child EXCEPT ![sem] = @ + d]
  /\ c_pc' = to
  /\ p_blocked' = IF d > 0 /\ SleepsOn(sem) THEN FALSE ELSE p_blocked
  /\ UNCHANGED <<p_pc, parentLocals, c_has_parent, c_status,
                 c_closed, load_signalled, in_children, proc_uaf, proc_panic,
                 notProc>>

\* process.c:172-173
process_exit_up1 ==
  /\ c_pc = "pe_up1"
  /\ ChildSema("wait_sema", 1, "pe_up1", "pe_down1")
process_exit_down1 ==
  /\ c_pc = "pe_down1"
  /\ ChildSema("exit_sema", -1, "pe_down1", "pe_remove")

\* process.c:176: list_remove (&p->child_elem)
process_exit_remove ==
  /\ c_pc = "pe_remove"
  /\ in_children' = FALSE
  /\ c_pc' = "pe_teardown"
  /\ UNCHANGED <<p_pc, p_blocked, parentLocals, c_has_parent, c_status,
                 c_closed, load_signalled, child, proc_uaf, proc_panic,
                 notProc>>

\* process.c:179-202: orphan the children, close the files and the executable.
process_exit_teardown ==
  /\ c_pc = "pe_teardown"
  /\ c_closed' = TRUE
  /\ c_pc' = IF c_has_parent THEN "pe_up2" ELSE "pe_free"
  /\ UNCHANGED <<p_pc, p_blocked, parentLocals, c_has_parent, c_status,
                 load_signalled, child, in_children, proc_uaf, proc_panic,
                 notProc>>

\* process.c:204-205
process_exit_up2 ==
  /\ c_pc = "pe_up2"
  /\ ChildSema("wait_sema", 1, "pe_up2", "pe_down2")
process_exit_down2 ==
  /\ c_pc = "pe_down2"
  /\ ChildSema("exit_sema", -1, "pe_down2", "pe_free")

\* process.c:209-210: free (t->process); t->process = NULL
process_exit_free ==
  /\ c_pc = "pe_free"
  /\ child' = [child EXCEPT !.freed = TRUE]
  /\ c_pc' = "dead"
  /\ UNCHANGED <<p_pc, p_blocked, parentLocals, c_has_parent, c_status,
                 c_closed, load_signalled, in_children, proc_uaf, proc_panic,
                 notProc>>

NextProc ==
  \/ thread_create
  \/ process_execute_parent
  \/ process_execute_push
  \/ exec_find
  \/ exec_load
  \/ exec_check
  \/ exec_fail_up1
  \/ exec_fail_up2
  \/ exec_fail_down1
  \/ exec_fail_down2
  \/ exec_fail_return
  \/ process_find
  \/ process_wait_down1
  \/ process_wait_read
  \/ process_wait_up1
  \/ process_wait_down2
  \/ process_wait_up2
  \/ process_wait_return
  \/ parent_exit
  \/ start_process_load
  \/ start_process_up
  \/ \E status \in ExitCodes : exit(status)
  \/ process_exit_has_parent
  \/ process_exit_up1
  \/ process_exit_down1
  \/ process_exit_remove
  \/ process_exit_teardown
  \/ process_exit_up2
  \/ process_exit_down2
  \/ process_exit_free

\* The steps of the parent's thread and of the child's thread.  Both are
\* runnable threads of the round-robin scheduler (threads/thread.c), which
\* gives every ready thread the processor again and again; the parent's
\* program goes on to call wait or to exit.
ParentSteps ==
  \/ thread_create
  \/ process_execute_parent
  \/ process_execute_push
  \/ exec_find
  \/ exec_load
  \/ exec_check
  \/ exec_fail_up1
  \/ exec_fail_up2
  \/ exec_fail_down1
  \/ exec_fail_down2
  \/ exec_fail_return
  \/ process_find
  \/ process_wait_down1
  \/ process_wait_read
  \/ process_wait_up1
  \/ process_wait_down2
  \/ process_wait_up2
  \/ process_wait_return
  \/ parent_exit

ChildSteps ==
  \/ start_process_load
  \/ start_process_up
  \/ \E status \in ExitCodes : exit(status)
  \/ process_exit_has_parent
  \/ process_exit_up1
  \/ process_exit_down1
  \/ process_exit_remove
  \/ process_exit_teardown
  \/ process_exit_up2
  \/ process_exit_down2
  \/ process_exit_free

-----------------------------------------------------------------------------
(* The indexed inode store, filesys/inode.c, as operators on a record      *)
(*   f = [c, fm, panic]                                                    *)
(* of the cache state, the free map (the set of allocated sectors) and     *)
(* whether the kernel panicked or hung.  A struct inode_disk is a record   *)
(*   d = [length, depth, is_dir, blocks, magic].                           *)

\* inode.c:12 (any value that is no data byte).
INODE_MAGIC == 7

\* Levels a walk of an inode tree may descend before it counts as hung.
Fuel == 12

DivRoundUp(a, b) == (a + b - 1) \div b

Panic(f) == [f EXCEPT !.panic = TRUE]

\* The kernel has stopped: nothing after a panic runs.
Stopped(f) == f.panic \/ f.c.panic

\* struct inode_disk and the cells of the sector that holds it.
ToSector(d) == <<d.length, d.depth, d.is_dir>> \o d.blocks \o <<d.magic>>

FromSector(buf) ==
  [length |-> buf[1], depth |-> buf[2], is_dir |-> buf[3],
   blocks |-> SubSeq(buf, 4, 3 + INODE_BLOCK_COUNT),
   magic |-> buf[BLOCK_SECTOR_SIZE]]

\* disk_inode->blocks[i]; an index past the array yields no sector.
Block(d, i) ==
  IF i \in 0..(INODE_BLOCK_COUNT - 1) THEN d.blocks[i + 1] ELSE -1

\* The calls of cache.h made by inode.c.  The block layer panics on a
\* sector past the end of the device.
fs_read(f, sector) ==
  IF sector \notin DOMAIN f.c.dev THEN [f |-> Panic(f), buf |-> Fill(0)]
  ELSE Let(filesys_block_read(f.c, sector),
           LAMBDA r : [f |-> [f EXCEPT !.c = r.c], buf |-> r.buf])

fs_read_bytes(f, sector, ofs, bytes) ==
  IF sector \notin DOMAIN f.c.dev
    THEN [f |-> Panic(f), buf |-> [i \in 1..bytes |-> 0]]
    ELSE Let(filesys_block_read_bytes(f.c, sector, ofs, bytes),
             LAMBDA r :
               [f |-> [f EXCEPT !.c = r.c],
                buf |-> IF r.c.panic THEN [i \in 1..bytes |-> 0] ELSE r.buf])

fs_write(f, sector, buffer) ==
  IF sector \notin DOMAIN f.c.dev THEN Panic(f)
  ELSE [f EXCEPT !.c = filesys_block_write(f.c, sector, buffer)]

fs_write_bytes(f, sector, buffer, ofs) ==
  IF sector \notin DOMAIN f.c.dev THEN Panic(f)
  ELSE [f EXCEPT !.c = filesys_block_write_bytes(f.c, sector, buffer, ofs)]

\* free_map_allocate (1, &sector): the first free sector, as the bitmap scan
\* of the free map finds it.
free_map_allocate(f) ==
  Let({s \in DOMAIN f.c.dev : s \notin f.fm},
      LAMBDA free :
        IF free = {} THEN [ok |-> FALSE, f |-> f, sector |-> 0]
        ELSE Let(CHOOSE x \in free : \A y \in free : x <= y,
                 LAMBDA s : [ok |-> TRUE, f |-> [f EXCEPT !.fm = @ \cup {s}],
                             sector |-> s]))

\* free_map_release (sector, 1): the bit of the sector is cleared, whether
\* it was set or not (what it asserts is not checked, lib/debug.h:31); a
\* sector past the end of the map is a write outside the bitmap.
free_map_release(f, sector) ==
  IF sector \notin DOMAIN f.c.dev THEN Panic(f)
  ELSE [f EXCEPT !.fm = @ \ {sector}]

\* inode.c:30-35
bytes_to_sectors(size) == DivRoundUp(size, BLOCK_SECTOR_SIZE)

\* inode.c:39-50
RECURSIVE DepthLoop(_, _)
DepthLoop(sectors, depth) ==
  IF sectors > INODE_BLOCK_COUNT
    THEN DepthLoop(DivRoundUp(sectors, INODE_BLOCK_COUNT), depth + 1)
    ELSE depth

bytes_to_depth(size) == DepthLoop(bytes_to_sectors(size), 0)

\* inode.c:66-78
RECURSIVE BlockSectorsLoop(_, _)
BlockSectorsLoop(sectors, depth) ==
  IF depth > 0 THEN BlockSectorsLoop(sectors * INODE_BLOCK_COUNT, depth - 1)
  ELSE sectors

inode_disk_block_sectors(d) == BlockSectorsLoop(1, d.depth)

\* inode.c:81-85
inode_disk_max_block_size(d) ==
  inode_disk_block_sectors(d) * BLOCK_SECTOR_SIZE

\* inode.c:88-93
inode_disk_blocks(d) == DivRoundUp(d.length, inode_disk_max_block_size(d))

\* inode.c:104-119
inode_disk_block_size(d, pos) ==
  LET max_block_size == inode_disk_max_block_size(d)
      full_blocks == d.length \div max_block_size
  IN IF pos <= full_blocks THEN max_block_size
     ELSE IF pos = full_blocks + 1 THEN d.length % max_block_size
     ELSE 0

\* inode.c:125-136
inode_disk_byte_to_sector_direct(d, pos) ==
  IF pos < d.length THEN Block(d, pos \div BLOCK_SECTOR_SIZE) ELSE -1

\* inode.c:177-199
inode_create_empty(f, sector, depth, is_dir) ==
  fs_write(f, sector,
           ToSector([length |-> 0, depth |-> depth, is_dir |-> is_dir,
                     blocks |-> [i \in 1..INODE_BLOCK_COUNT |-> 0],
                     magic |-> INODE_MAGIC]))

\* inode.c:247-251 and 531-533: free_map_release (blocks[j], 1), from <= j < to
RECURSIVE ReleaseBlocks(_, _, _, _)
ReleaseBlocks(f, d, j, to) ==
  IF j >= to \/ Stopped(f) THEN f
  ELSE Let(free_map_release(f, Block(d, j)),
           LAMBDA f1 : ReleaseBlocks(f1, d, j + 1, to))

\* inode.c:234-245, the for loop
RECURSIVE GrowDirectLoop(_, _, _, _, _)
GrowDirectLoop(f, d, i, new_sectors, zero) ==
  IF i >= new_sectors \/ Stopped(f) THEN [f |-> f, d |-> d, i |-> i]
  ELSE Let(free_map_allocate(f),
           LAMBDA a :
             IF ~a.ok THEN [f |-> a.f, d |-> d, i |-> i]
             ELSE Let(<<IF zero THEN fs_write(a.f, a.sector, Fill(0))
                        ELSE a.f,
                        [d EXCEPT !.blocks[i + 1] = a.sector]>>,
                      LAMBDA n : GrowDirectLoop(n[1], n[2], i + 1,
                                                new_sectors, zero)))

\* inode.c:214-259
inode_disk_grow_length_direct(f, d, size, zero) ==
  LET old_sectors == bytes_to_sectors(d.length)
      new_sectors == bytes_to_sectors(size)
  IN IF size < d.length THEN [f |-> f, d |-> d, ok |-> FALSE]
     ELSE IF size = d.length THEN [f |-> f, d |-> d, ok |-> TRUE]
     ELSE IF new_sectors > INODE_BLOCK_COUNT
       THEN [f |-> f, d |-> d, ok |-> FALSE]
     ELSE Let(GrowDirectLoop(f, d, old_sectors, new_sectors, zero),
              LAMBDA r :
                IF r.i # new_sectors
                  THEN [f |-> ReleaseBlocks(r.f, r.d, old_sectors, r.i),
                        d |-> r.d, ok |-> FALSE]
                  ELSE [f |-> r.f, d |-> [r.d EXCEPT !.length = size],
                        ok |-> TRUE])

\* inode.c:302-315, the while loop
RECURSIVE GrowDepthLoop(_, _, _)
GrowDepthLoop(f, d, depth) ==
  IF d.depth >= depth \/ Stopped(f) THEN [f |-> f, d |-> d, ok |-> TRUE]
  ELSE Let(free_map_allocate(f),
           LAMBDA a :
             IF ~a.ok THEN [f |-> a.f, d |-> d, ok |-> FALSE]
             ELSE Let(fs_write(a.f, a.sector, ToSector(d)),
                      LAMBDA f1 :
                        GrowDepthLoop(f1,
                                      [d EXCEPT !.depth = @ + 1,
                                                !.blocks[1] = a.sector],
                                      depth)))

\* inode.c:268-321.  Returns the new inode->data.
inode_grow_depth(f, sector, data, depth) ==
  IF data.depth > depth THEN [f |-> f, data |-> data, ok |-> FALSE]
  ELSE IF data.depth = depth THEN [f |-> f, data |-> data, ok |-> TRUE]
  ELSE Let(free_map_allocate(f),
           LAMBDA a :
             IF ~a.ok THEN [f |-> a.f, data |-> data, ok |-> FALSE]
             ELSE Let(GrowDepthLoop(
                        fs_write(a.f, a.sector, ToSector(data)),
                        [data EXCEPT
                           !.blocks = [i \in 1..INODE_BLOCK_COUNT |->
                                         IF i = 1 THEN a.sector ELSE 0],
                           !.depth = @ + 1],
                        depth),
                      LAMBDA r :
                        IF ~r.ok THEN [f |-> r.f, data |-> data, ok |-> FALSE]
                        ELSE [f |-> fs_write(r.f, sector, ToSector(r.d)),
                              data |-> r.d, ok |-> TRUE]))

RECURSIVE inode_disk_grow_length(_, _, _, _, _)
RECURSIVE GrowLoop(_, _, _, _, _)
RECURSIVE sector_grow_length(_, _, _, _, _)

\* inode.c:325-393
inode_disk_grow_length(f, d, length, zero, fuel) ==
  IF d.depth = 0 THEN inode_disk_grow_length_direct(f, d, length, zero)
  ELSE IF length < d.length THEN [f |-> f, d |-> d, ok |-> FALSE]
  ELSE IF length = d.length THEN [f |-> f, d |-> d, ok |-> TRUE]
  ELSE Let(GrowLoop(f, d, length, zero, fuel),
           LAMBDA r :
             [f |-> IF r.last_allocated
                      THEN free_map_release(r.f, Block(r.d, r.block_index))
                      ELSE r.f,
              d |-> r.d,
              ok |-> r.d.length = length])

\* inode.c:349-383, the while loop
GrowLoop(f, d, length, zero, fuel) ==
  LET max_block_size == inode_disk_max_block_size(d)
      block_index == d.length \div max_block_size
      block_length == d.length % max_block_size
      new_block_length ==
        Min(block_length + (length - d.length), max_block_size)
  IN IF d.length = length \/ Stopped(f)
       THEN [f |-> f, d |-> d, last_allocated |-> FALSE, block_index |-> 0]
     ELSE IF fuel = 0 \/ block_index >= INODE_BLOCK_COUNT
       THEN [f |-> Panic(f), d |-> d, last_allocated |-> FALSE,
             block_index |-> 0]
     ELSE Let(IF block_length = 0 THEN free_map_allocate(f)
              ELSE [ok |-> TRUE, f |-> f, sector |-> Block(d, block_index)],
              LAMBDA a :
                IF ~a.ok
                  THEN [f |-> a.f, d |-> d, last_allocated |-> FALSE,
                        block_index |-> block_index]
                  ELSE Let(<<IF block_length = 0
                               THEN inode_create_empty(a.f, a.sector,
                                                       d.depth - 1, 0)
                               ELSE a.f,
                             [d EXCEPT !.blocks[block_index + 1] = a.sector]>>,
                           LAMBDA n :
                             Let(sector_grow_length(n[1], a.sector,
                                                    new_block_length, zero,
                                                    fuel - 1),
                                 LAMBDA s :
                                   IF ~s.ok
                                     THEN [f |-> s.f, d |-> n[2],
                                           last_allocated |->
                                             (block_length = 0),
                                           block_index |-> block_index]
                                     ELSE Let([n[2] EXCEPT !.length =
                                                 d.length + (new_block_length
                                                             - block_length)],
                                              LAMBDA d2 :
                                                GrowLoop(s.f, d2, length,
                                                         zero, fuel)))))

\* inode.c:397-414
sector_grow_length(f, sector, length, zero, fuel) ==
  Let(fs_read(f, sector),
      LAMBDA r :
        Let(inode_disk_grow_length(r.f, FromSector(r.buf), length, zero,
                                   fuel),
            LAMBDA g : [f |-> fs_write(g.f, sector, ToSector(g.d)),
                        ok |-> g.ok]))

\* An inode_grow_length that would never fill the new sectors with zeros.
inode_grow_length_stale(f, sector, data, length, zero) ==
  Let(inode_disk_grow_length(f, data, length, FALSE, Fuel),
      LAMBDA g : [f |-> fs_write(g.f, sector, ToSector(g.d)),
                  data |-> g.d, ok |-> g.ok])

\* inode.c:418-425.  Returns the new inode->data.
inode_grow_length(f, sector, data, length, zero) ==
  Let(inode_disk_grow_length(f, data, length, zero, Fuel),
      LAMBDA g : [f |-> fs_write(g.f, sector, ToSector(g.d)),
                  data |-> g.d, ok |-> g.ok])

\* inode.c:453-471
inode_create(f, sector, length, is_dir) ==
  Let(inode_create_empty(f, sector, bytes_to_depth(length), is_dir),
      LAMBDA f1 : sector_grow_length(f1, sector, length, TRUE, Fuel))

\* inode.c:525-561
RECURSIVE inode_disk_remove(_, _, _)
RECURSIVE RemoveLoop(_, _, _, _, _)
inode_disk_remove(f, d, fuel) ==
  IF d.depth = 0 THEN ReleaseBlocks(f, d, 0, bytes_to_sectors(d.length))
  ELSE RemoveLoop(f, d, 0, inode_disk_blocks(d), fuel)

\* inode.c:553-558, the for loop
RemoveLoop(f, d, i, allocated_blocks, fuel) ==
  IF i >= allocated_blocks \/ Stopped(f) THEN f
  ELSE IF fuel = 0 THEN Panic(f)
  ELSE Let(fs_read(f, Block(d, i)),
           LAMBDA r :
             Let(free_map_release(r.f, Block(d, i)),
                 LAMBDA f1 :
                   Let(inode_disk_remove(f1, FromSector(r.buf), fuel - 1),
                       LAMBDA f2 :
                         RemoveLoop(f2, d, i + 1, allocated_blocks, fuel))))

\* inode.c:602-648.  Returns the bytes copied to BUFFER.
RECURSIVE inode_disk_read_at_direct(_, _, _, _, _)
inode_disk_read_at_direct(f, d, size, offset, buf) ==
  LET sector_idx == inode_disk_byte_to_sector_direct(d, offset)
      sector_ofs == offset % BLOCK_SECTOR_SIZE
      chunk_size ==
        Min(size, Min(d.length - offset, BLOCK_SECTOR_SIZE - sector_ofs))
  IN IF size <= 0 \/ chunk_size <= 0 \/ Stopped(f)
       THEN [f |-> f, buf |-> buf]
     ELSE Let(IF sector_ofs = 0 /\ chunk_size = BLOCK_SECTOR_SIZE
                THEN fs_read(f, sector_idx)
                ELSE fs_read_bytes(f, sector_idx, sector_ofs, chunk_size),
              LAMBDA r :
                Let(<<size - chunk_size, offset + chunk_size, buf \o r.buf>>,
                    LAMBDA n :
                      inode_disk_read_at_direct(r.f, d, n[1], n[2], n[3])))

\* inode.c:653-703
RECURSIVE inode_disk_read_at(_, _, _, _, _)
RECURSIVE ReadLoop(_, _, _, _, _, _)
inode_disk_read_at(f, d, size, offset, fuel) ==
  IF d.depth = 0 THEN inode_disk_read_at_direct(f, d, size, offset, <<>>)
  ELSE ReadLoop(f, d, size, offset, <<>>, fuel)

\* inode.c:671-699, the while loop.  A block that yields no byte is asked
\* again for ever.
ReadLoop(f, d, size, offset, buf, fuel) ==
  LET max_block_size == inode_disk_max_block_size(d)
      block_index == offset \div max_block_size
      block_offset == offset % max_block_size
      read_size ==
        Min(size, Min(d.length - offset,
                      inode_disk_block_size(d, block_index) - block_offset))
  IN IF size <= 0 \/ Stopped(f) THEN [f |-> f, buf |-> buf]
     ELSE IF fuel = 0 \/ block_index >= inode_disk_blocks(d)
       THEN [f |-> Panic(f), buf |-> buf]
     ELSE IF read_size <= 0 THEN [f |-> f, buf |-> buf]
     ELSE Let(fs_read(f, Block(d, block_index)),
              LAMBDA r :
                Let(inode_disk_read_at(r.f, FromSector(r.buf), read_size,
                                       block_offset, fuel - 1),
                    LAMBDA s :
                      IF Len(s.buf) = 0
                        THEN [f |-> Panic(s.f), buf |-> buf]
                        ELSE Let(<<size - Len(s.buf), offset + Len(s.buf),
                                   buf \o s.buf>>,
                                 LAMBDA n :
                                   ReadLoop(s.f, d, n[1], n[2], n[3], fuel))))

\* inode.c:717-766.  BUFFER holds the bytes still to write; n counts the
\* bytes written.
RECURSIVE inode_disk_write_at_direct(_, _, _, _, _, _)
inode_disk_write_at_direct(f, d, buffer, size, offset, n) ==
  LET sector_idx == inode_disk_byte_to_sector_direct(d, offset)
      sector_ofs == offset % BLOCK_SECTOR_SIZE
      chunk_size ==
        Min(size, Min(d.length - offset, BLOCK_SECTOR_SIZE - sector_ofs))
  IN IF size <= 0 \/ sector_idx = -1 \/ chunk_size <= 0 \/ Stopped(f)
       THEN [f |-> f, n |-> n]
     ELSE Let(<<IF sector_ofs = 0 /\ chunk_size = BLOCK_SECTOR_SIZE
                  THEN fs_write(f, sector_idx, Slice(buffer, n, chunk_size))
                  ELSE fs_write_bytes(f, sector_idx,
                                      Slice(buffer, n, chunk_size),
                                      sector_ofs),
                size - chunk_size, offset + chunk_size, n + chunk_size>>,
              LAMBDA w :
                inode_disk_write_at_direct(w[1], d, buffer, w[2], w[3], w[4]))

\* inode.c:771-824
RECURSIVE inode_disk_write_at(_, _, _, _, _, _)
RECURSIVE WriteLoop(_, _, _, _, _, _, _)
inode_disk_write_at(f, d, buffer, size, offset, fuel) ==
  IF d.depth = 0 THEN inode_disk_write_at_direct(f, d, buffer, size, offset, 0)
  ELSE WriteLoop(f, d, buffer, size, offset, 0, fuel)

\* inode.c:789-820, the while loop.  A block that takes no byte is asked
\* again for ever.
WriteLoop(f, d, buffer, size, offset, n, fuel) ==
  LET max_block_size == inode_disk_max_block_size(d)
      block_index == offset \div max_block_size
      block_offset == offset % max_block_size
      read_size ==
        Min(size, Min(d.length - offset,
                      inode_disk_block_size(d, block_index) - block_offset))
      write_size == Min(size, max_block_size)
  IN IF \/ size <= 0 \/ block_index >= inode_disk_blocks(d)
        \/ read_size <= 0 \/ Stopped(f)
       THEN [f |-> f, n |-> n]
     ELSE IF fuel = 0 THEN [f |-> Panic(f), n |-> n]
     ELSE Let(fs_read(f, Block(d, block_index)),
              LAMBDA r :
                Let(inode_disk_write_at(r.f, FromSector(r.buf),
                                        SubSeq(buffer, n + 1, Len(buffer)),
                                        write_size, block_offset, fuel - 1),
                    LAMBDA w :
                      IF w.n = 0
                        THEN [f |-> Panic(w.f), n |-> n]
                        ELSE Let(<<size - w.n, offset + w.n, n + w.n>>,
                                 LAMBDA m :
                                   WriteLoop(w.f, d, buffer, m[1], m[2], m[3],
                                             fuel))))

\* inode.c:829-863.  Returns the new inode->data and the bytes written.
inode_write_at(f, inode, buffer, size, offset) ==
  IF inode.deny_write_cnt # 0 THEN [f |-> f, data |-> inode.data, n |-> 0]
  ELSE
    Let(IF inode.data.depth < bytes_to_depth(offset + size)
          THEN inode_grow_depth(f, inode.sector, inode.data,
                                bytes_to_depth(offset + size))
          ELSE [f |-> f, data |-> inode.data, ok |-> TRUE],
        LAMBDA g1 :
          IF ~g1.ok THEN [f |-> g1.f, data |-> g1.data, n |-> 0]
          ELSE
            Let(IF g1.data.length < offset
                  THEN inode_grow_length(g1.f, inode.sector, g1.data, offset,
                                         TRUE)
                  ELSE g1,
                LAMBDA g2 :
                  IF ~g2.ok THEN [f |-> g2.f, data |-> g2.data, n |-> 0]
                  ELSE
                    Let(IF g2.data.length < offset + size
                          THEN inode_grow_length(g2.f, inode.sector, g2.data,
                                                 offset + size, FALSE)
                          ELSE g2,
                        LAMBDA g3 :
                          IF ~g3.ok
                            THEN [f |-> g3.f, data |-> g3.data, n |-> 0]
                            ELSE Let(inode_disk_write_at(g3.f, g3.data,
                                                         buffer, size, offset,
                                                         Fuel),
                                     LAMBDA w : [f |-> w.f, data |-> g3.data,
                                                 n |-> w.n]))))

-----------------------------------------------------------------------------
(* The inode specification: one file is created, opened, written, read,    *)
(* removed and closed through the calls of inode.h.                        *)

\* Sectors of the file-system device in the inode specification.
InodeSectors == 18

\* Calls of inode.h in one run.
MaxInodeOps == 6

\* Openers of one inode.
MaxOpen == 2

\* Entries of the list of open inodes.
MaxInodes == 1

\* The largest file of depth 0, and the lengths written: part of a sector,
\* the largest direct file, and the smallest files of depth 1 and depth 2.
DirectMax == INODE_BLOCK_COUNT * BLOCK_SECTOR_SIZE
IoSizes == {1, DirectMax, DirectMax + 1, INODE_BLOCK_COUNT * DirectMax + 1}

\* The bytes a caller writes: non-zero, different in neighbouring cells.
Pattern(v, size) == [i \in 1..size |-> 1 + ((i + v) % MaxByte)]

NoInodeOp == [op |-> "none", size |-> 0, ret |-> 0, buf |-> <<>>,
              fresh |-> FALSE, freed |-> FALSE, offset |-> 0, length |-> 0,
              depth |-> 0, hole |-> FALSE, same |-> FALSE, hole0 |-> -1]

\* The offsets O > 0 one byte is written at: in the first sector, in the
\* last place of a direct inode and in the first place beyond it.
ByteOffsets == {1, DirectMax, DirectMax + 1}

\* The <<size, offset>> of the reads away from offset 0: across the end
\* of the file, and one byte at or beyond it.
ReadAtInputs == {<<DirectMax + 1, 1>>, <<1, DirectMax + 1>>,
                 <<1, 2 * DirectMax>>}

InodeState == [c |-> CacheState, fm |-> free_map, panic |-> inode_panic]

SetInode(f) ==
  /\ SetCache(f.c)
  /\ free_map' = f.fm
  /\ inode_panic' = (f.panic \/ f.c.panic)

InodeRunning == ~inode_panic /\ ~cache_panic /\ inode_ops < MaxInodeOps

\* filesys_create: a sector for the inode, then inode_create.
InodeCreate(length) ==
  /\ InodeRunning
  /\ created = <<>>
  /\ free_map0 = <<>>
  /\ \E a \in {free_map_allocate(InodeState)} :
       /\ a.ok
       /\ \E r \in {inode_create(a.f, a.sector, length, 0)} :
            /\ \E f \in {IF r.ok THEN r.f
                          ELSE free_map_release(r.f, a.sector)} : SetInode(f)
            /\ created' = IF r.ok THEN <<a.sector>> ELSE <<>>
  /\ free_map0' = <<free_map>>
  /\ inode_last' = [NoInodeOp EXCEPT !.op = "create", !.size = length]
  /\ inode_ops' = inode_ops + 1
  /\ UNCHANGED <<open_inodes, fm_removed, file_data, cache_enables, shadow,
                 last_read, notInode>>

\* inode_open of the file's sector: a second opener shares the struct inode.
InodeOpen ==
  /\ InodeRunning
  /\ created # <<>>
  /\ LET sector == created[1]
         found == {i \in 1..Len(open_inodes) : open_inodes[i].sector = sector}
     IN IF found # {}
          THEN /\ \A i \in found : open_inodes[i].open_cnt < MaxOpen
               /\ open_inodes' = [i \in 1..Len(open_inodes) |->
                                    IF i \in found
                                      THEN [open_inodes[i] EXCEPT
                                              !.open_cnt = @ + 1]
                                      ELSE open_inodes[i]]
               /\ UNCHANGED <<cacheVars, free_map, inode_panic>>
          ELSE /\ \E r \in {fs_read(InodeState, sector)} :
                    /\ open_inodes' =
                         <<[sector |-> sector, open_cnt |-> 1,
                            removed |-> FALSE, deny_write_cnt |-> 0,
                            data |-> FromSector(r.buf)]>>
                         \o open_inodes
                    /\ \E f \in {r.f} : SetInode(f)
               /\ UNCHANGED <<cache_enables, shadow, last_read>>
  /\ inode_last' = [NoInodeOp EXCEPT !.op = "open"]
  /\ inode_ops' = inode_ops + 1
  /\ UNCHANGED <<created, free_map0, fm_removed, file_data, notInode>>

\* inode_write_at (inode, B, size, 0)
InodeWrite(i, v, size) ==
  /\ InodeRunning
  /\ i <= Len(open_inodes)
  /\ \E w \in {inode_write_at(InodeState, open_inodes[i], Pattern(v, size),
                               size, 0)} :
       /\ \E f \in {w.f} : SetInode(f)
       /\ open_inodes' = [open_inodes EXCEPT ![i].data = w.data]
       /\ inode_last' = [NoInodeOp EXCEPT
                           !.op = "write", !.size = size, !.ret = w.n,
                           !.buf = Pattern(v, size),
                           !.fresh = /\ open_inodes[i].data.length = 0
                                     /\ open_inodes[i].data.depth = 0
                                     /\ file_data = <<>>]
  /\ file_data' = IF size >= Len(file_data) THEN Pattern(v, size)
                  ELSE Patch(file_data, 0, Pattern(v, size))
  /\ inode_ops' = inode_ops + 1
  /\ UNCHANGED <<created, free_map0, fm_removed, cache_enables, shadow,
                 last_read, notInode>>

\* inode_read_at (inode, buffer, size, 0)
InodeRead(i, size) ==
  /\ InodeRunning
  /\ i <= Len(open_inodes)
  /\ \E r \in {inode_disk_read_at(InodeState, open_inodes[i].data, size, 0,
                                   Fuel)} :
       /\ \E f \in {r.f} : SetInode(f)
       /\ inode_last' = [NoInodeOp EXCEPT
                           !.op = "read", !.size = size, !.ret = Len(r.buf),
                           !.buf = r.buf,
                           !.fresh = /\ inode_last.op = "write"
                                     /\ inode_last.fresh
                                     /\ inode_last.size = size,
                           !.hole = /\ inode_last.op = "write_byte"
                                    /\ inode_last.fresh
                                    /\ inode_last.offset = size,
                           !.hole0 = IF /\ inode_last.op = "write_byte"
                                        /\ inode_last.ret = 1
                                        /\ inode_last.offset = size
                                       THEN inode_last.hole0
                                       ELSE -1,
                           !.length = open_inodes[i].data.length,
                           !.depth = open_inodes[i].data.depth,
                           !.same = r.f.fm = free_map]
  /\ inode_ops' = inode_ops + 1
  /\ UNCHANGED <<open_inodes, created, free_map0, fm_removed, file_data,
                 cache_enables, shadow, last_read, notInode>>

\* inode_write_at (inode, B, 1, offset) with offset > 0
InodeWriteByte(i, offset) ==
  /\ InodeRunning
  /\ i <= Len(open_inodes)
  /\ \E w \in {inode_write_at(InodeState, open_inodes[i], <<MaxByte>>, 1,
                               offset)} :
       /\ \E f \in {w.f} : SetInode(f)
       /\ open_inodes' = [open_inodes EXCEPT ![i].data = w.data]
       /\ inode_last' = [NoInodeOp EXCEPT
                           !.op = "write_byte", !.size = 1, !.ret = w.n,
                           !.buf = <<MaxByte>>, !.offset = offset,
                           !.length = w.data.length,
                           !.fresh = /\ open_inodes[i].data.length = 0
                                     /\ file_data = <<>>,
                           !.hole0 = IF open_inodes[i].data.length < offset
                                       THEN open_inodes[i].data.length
                                       ELSE -1]
  /\ file_data' = [k \in 1..Max(Len(file_data), offset + 1) |->
                     IF k = offset + 1 THEN MaxByte
                     ELSE IF k <= Len(file_data) THEN file_data[k]
                     ELSE 0]
  /\ inode_ops' = inode_ops + 1
  /\ UNCHANGED <<created, free_map0, fm_removed, cache_enables, shadow,
                 last_read, notInode>>

\* inode_read_at (inode, buffer, size, offset) with offset > 0
InodeReadAt(i, size, offset) ==
  /\ InodeRunning
  /\ i <= Len(open_inodes)
  /\ \E r \in {inode_disk_read_at(InodeState, open_inodes[i].data, size,
                                   offset, Fuel)} :
       /\ \E f \in {r.f} : SetInode(f)
       /\ inode_last' = [NoInodeOp EXCEPT
                           !.op = "read", !.size = size, !.ret = Len(r.buf),
                           !.buf = r.buf, !.offset = offset,
                           !.length = open_inodes[i].data.length,
                           !.depth = open_inodes[i].data.depth,
                           !.same = r.f.fm = free_map]
  /\ inode_ops' = inode_ops + 1
  /\ UNCHANGED <<open_inodes, created, free_map0, fm_removed, file_data,
                 cache_enables, shadow, last_read, notInode>>

\* inode_remove
InodeRemove(i) ==
  /\ InodeRunning
  /\ i <= Len(open_inodes)
  /\ ~open_inodes[i].removed
  /\ open_inodes' = [open_inodes EXCEPT ![i].removed = TRUE]
  /\ fm_removed' = <<free_map>>
  /\ inode_last' = [NoInodeOp EXCEPT !.op = "remove"]
  /\ inode_ops' = inode_ops + 1
  /\ UNCHANGED <<cacheVars, free_map, inode_panic, created, free_map0,
                 file_data, notInode>>

\* inode_close
InodeClose(i) ==
  /\ InodeRunning
  /\ i <= Len(open_inodes)
  /\ LET inode == open_inodes[i]
     IN IF inode.open_cnt - 1 # 0
          THEN /\ open_inodes' = [open_inodes EXCEPT ![i].open_cnt = @ - 1]
               /\ inode_last' = [NoInodeOp EXCEPT !.op = "close"]
               /\ UNCHANGED <<cacheVars, free_map, inode_panic, created>>
          ELSE /\ open_inodes' = [j \in 1..(Len(open_inodes) - 1) |->
                                    IF j < i THEN open_inodes[j]
                                    ELSE open_inodes[j + 1]]
               /\ inode_last' = [NoInodeOp EXCEPT !.op = "close",
                                                  !.freed = inode.removed]
               /\ IF inode.removed
                    THEN /\ \E f1 \in {free_map_release(InodeState,
                                                         inode.sector)} :
                              \E f2 \in {inode_disk_remove(f1, inode.data,
                                                          Fuel)} :
                                SetInode(f2)
                         /\ created' = <<>>
                         /\ UNCHANGED <<cache_enables, shadow, last_read>>
                    ELSE UNCHANGED <<cacheVars, free_map, inode_panic,
                                     created>>
  /\ inode_ops' = inode_ops + 1
  /\ UNCHANGED <<free_map0, fm_removed, file_data, notInode>>

NextInode ==
  \/ \E length \in {0} : InodeCreate(length)
  \/ InodeOpen
  \/ \E i \in 1..MaxInodes, v \in 0..1, size \in IoSizes :
       InodeWrite(i, v, size)
  \/ \E i \in 1..MaxInodes, size \in IoSizes : InodeRead(i, size)
  \/ \E i \in 1..MaxInodes, offset \in ByteOffsets :
       InodeWriteByte(i, offset)
  \/ \E i \in 1..MaxInodes, in \in ReadAtInputs :
       InodeReadAt(i, in[1], in[2])
  \/ \E i \in 1..MaxInodes : InodeRemove(i)
  \/ \E i \in 1..MaxInodes : InodeClose(i)
  \/ CacheEnable

-----------------------------------------------------------------------------
(* Virtual memory (vm/page.c, vm/frame.c, vm/swap.c, vm/mmap.c) as         *)
(* operators on a record                                                   *)
(*   m = [supp, pd, ft, fd, used, bitmap, block, file, panic].             *)
(* A supplemental entry is named by <<process, user page>>, a kernel page  *)
(* by its frame number (0 is NULL), a page is PGSIZE cells.                *)

\* Sectors of one page (8 in swap.h:4, scaled).
PAGE_SECTOR_COUNT == 2

PGSIZE == PAGE_SECTOR_COUNT * BLOCK_SECTOR_SIZE

\* User processes, user pages of each, pages of the user pool, page slots
\* of the swap device, and the length of the one file that is mapped.
NProcs == 2
NUPages == 2
NFrames == 2
SwapPages == 2
VmFileLen == BLOCK_SECTOR_SIZE + 2

\* The process that maps the file.
MmapProc == 1

\* System calls, faults and user accesses in one run.
MaxVmOps == 7

Procs == 1..NProcs
UPages == 1..NUPages
Entries == Procs \X UPages
Frames == 1..NFrames
SwapSlots == 0..(SwapPages - 1)
SwapSectors == 0..(SwapPages * PAGE_SECTOR_COUNT - 1)

ZeroPage == [i \in 1..PGSIZE |-> 0]

\* No struct supp_entry for this user page (supp_find returns NULL).
NoEntry ==
  [state |-> "NONE", type |-> "NORMAL", kpage |-> 0, swap_index |-> 0,
   writable |-> FALSE, pinned |-> FALSE, dirty |-> FALSE,
   ofs |-> 0, read_bytes |-> 0, zero_bytes |-> 0]

\* A page-table entry that is not present.
NoPte == [present |-> FALSE, kpage |-> 0, writable |-> FALSE,
          accessed |-> FALSE, dirty |-> FALSE]

\* lib/debug.h:31 defines NDEBUG before it tests it, so ASSERT expands to
\* nothing (debug.h:46) and a condition that is asserted is not checked.
\* The kernel stops at a PANIC, at a fault on a null pointer in kernel code,
\* and in this model at a step that goes on from pointers that are stale
\* (list_remove of an element that is in no list, list_pop_front of an
\* empty list), whose effect depends on what the memory holds.
VmPanic(m) == [m EXCEPT !.panic = TRUE]

\* The frame_elem of the entry is in frame_table.
InFrameTable(m, e) == \E i \in 1..Len(m.ft) : m.ft[i] = e

\* page.c:350-354
supp_is_file(entry) == entry.type = "CODE" \/ entry.type = "MMAP"

\* page.c:661-669
supp_is_dirty(m, e) == m.supp[e].dirty \/ m.pd[e].dirty

\* page.c:320-330
supp_set_state(m, e, state) ==
  IF m.panic THEN m ELSE [m EXCEPT !.supp[e].state = state]

\* page.c:634-649
supp_set_kpage(m, e, kpage) ==
  IF m.panic THEN m ELSE [m EXCEPT !.supp[e].kpage = kpage]

\* page.c:407-415
supp_set_swap(m, e, index) ==
  IF m.panic THEN m
  ELSE supp_set_state([m EXCEPT !.supp[e].swap_index = index], e, "SWAPPED")

\* frame.c:48-57; list_push_back of an element that is in the list already
\* ties the list into a knot.
frame_insert(m, e) ==
  IF m.panic THEN m
  ELSE IF InFrameTable(m, e) THEN VmPanic(m)
  ELSE [m EXCEPT !.ft = Append(@, e)]

\* frame.c:60-69; list_remove of an element that is in no list writes
\* through the neighbours it had when it was last in one.
frame_remove(m, e) ==
  IF m.panic THEN m
  ELSE IF ~InFrameTable(m, e) THEN VmPanic(m)
  ELSE [m EXCEPT !.ft = SelectSeq(@, LAMBDA x : x # e)]

\* frame.c:161-173; palloc_get_page hands out the lowest free page of the
\* user pool, zeroed under PAL_ZERO and with its old content otherwise.
frame_allocate(m, e, zero) ==
  IF m.panic THEN [m |-> m, ok |-> FALSE]
  ELSE IF m.used = Frames THEN [m |-> m, ok |-> FALSE]
  ELSE Let(CHOOSE k \in Frames \ m.used : \A j \in Frames \ m.used : k <= j,
           LAMBDA k :
             [m |-> supp_set_kpage(
                      [m EXCEPT !.used = @ \cup {k},
                                !.fd[k] = IF zero THEN ZeroPage ELSE @],
                      e, k),
              ok |-> TRUE])

\* A frame_free that would forget the page and not give it back to the
\* user pool.
frame_free_leak(m, e) == supp_set_kpage(m, e, 0)

\* frame.c:196-206; palloc_free_page (NULL) does nothing.
frame_free(m, e) ==
  IF m.panic THEN m
  ELSE supp_set_kpage([m EXCEPT !.used = @ \ {m.supp[e].kpage}], e, 0)

\* A frame_install that would map every page writable, whatever the
\* entry says.
frame_install_writable(m, e) ==
  IF m.panic \/ m.pd[e].present THEN [m |-> m, ok |-> FALSE]
  ELSE IF m.supp[e].kpage = 0 THEN [m |-> VmPanic(m), ok |-> FALSE]
  ELSE [m |-> frame_insert(
                [m EXCEPT !.pd[e] = [present |-> TRUE,
                                     kpage |-> m.supp[e].kpage,
                                     writable |-> TRUE,
                                     accessed |-> FALSE,
                                     dirty |-> FALSE]],
                e),
        ok |-> TRUE]

\* frame.c:209-228; a null kpage would be mapped as whatever vtop makes of
\* it.
frame_install(m, e) ==
  IF m.panic \/ m.pd[e].present THEN [m |-> m, ok |-> FALSE]
  ELSE IF m.supp[e].kpage = 0 THEN [m |-> VmPanic(m), ok |-> FALSE]
  ELSE [m |-> frame_insert(
                [m EXCEPT !.pd[e] = [present |-> TRUE,
                                     kpage |-> m.supp[e].kpage,
                                     writable |-> m.supp[e].writable,
                                     accessed |-> FALSE,
                                     dirty |-> FALSE]],
                e),
        ok |-> TRUE]

\* frame.c:209-228, success being what pagedir_set_page returns: false
\* when it finds no page for the page table.
frame_install_env(m, e, success) ==
  IF m.panic \/ m.pd[e].present \/ ~success THEN [m |-> m, ok |-> FALSE]
  ELSE frame_install(m, e)

\* frame.c:231-242
frame_uninstall(m, e) ==
  IF m.panic THEN m ELSE frame_remove([m EXCEPT !.pd[e] = NoPte], e)

\* swap.c:46-57: sector i of the page goes to sector index * 8 + i.
block_write_sector(m, index, i, page) ==
  [m EXCEPT !.block[index * PAGE_SECTOR_COUNT + i] =
              Slice(page, i * BLOCK_SECTOR_SIZE, BLOCK_SECTOR_SIZE)]

RECURSIVE WritePageLoop(_, _, _, _)
WritePageLoop(m, index, i, page) ==
  IF i = PAGE_SECTOR_COUNT THEN m
  ELSE WritePageLoop(block_write_sector(m, index, i, page), index, i + 1, page)

block_write_page(m, index, page) == WritePageLoop(m, index, 0, page)

\* swap.c:59-70
block_read_page(m, index) ==
  [j \in 1..PGSIZE |->
     m.block[index * PAGE_SECTOR_COUNT + ((j - 1) \div BLOCK_SECTOR_SIZE)]
            [1 + ((j - 1) % BLOCK_SECTOR_SIZE)]]

\* swap.c:80-85: bitmap_scan_and_flip, PANIC when no slot is free.
swap_scan_and_flip(m) ==
  IF m.panic \/ \A s \in SwapSlots : m.bitmap[s]
  THEN [m |-> VmPanic(m), index |-> 0]
  ELSE Let(CHOOSE s \in SwapSlots :
             ~m.bitmap[s] /\ \A t \in SwapSlots : ~m.bitmap[t] => s <= t,
           LAMBDA index :
             [m |-> [m EXCEPT !.bitmap[index] = TRUE], index |-> index])

\* swap.c:74-89
swap_install(m, kpage) ==
  Let(swap_scan_and_flip(m), LAMBDA r :
    IF r.m.panic THEN r
    ELSE [m |-> block_write_page(r.m, r.index, m.fd[kpage]),
          index |-> r.index])

\* swap.c:93-105; block_read stops the kernel on a sector past the device
\* and the copy to a null kpage faults.
swap_uninstall(m, index, kpage) ==
  IF m.panic THEN m
  ELSE IF index >= SwapPages \/ kpage = 0 THEN VmPanic(m)
  ELSE [m EXCEPT !.fd[kpage] = block_read_page(m, index),
                 !.bitmap[index] = FALSE]

\* swap.c:108-117; bitmap_set past the end of the bitmap writes outside it.
swap_remove(m, index) ==
  IF m.panic THEN m
  ELSE IF index >= SwapPages THEN VmPanic(m)
  ELSE [m EXCEPT !.bitmap[index] = FALSE]

\* page.c:521-534: file_seek (file, ofs); file_write (file, kpage,
\* read_bytes), which extends the file when it writes past its end.  An
\* entry that is no mapping has no file, and a null kpage is read from.
supp_write_mmap(m, e) ==
  IF m.panic THEN m
  ELSE IF m.supp[e].kpage = 0 \/ m.supp[e].type # "MMAP" THEN VmPanic(m)
  ELSE Let(m.supp[e], LAMBDA entry :
    [m EXCEPT !.file =
       [i \in 1..Max(Len(m.file), entry.ofs + entry.read_bytes) |->
          IF i > entry.ofs /\ i <= entry.ofs + entry.read_bytes
          THEN m.fd[entry.kpage][i - entry.ofs]
          ELSE m.file[i]]])

\* page.c:421-433, from frame_uninstall on (the page is in the swap slot).
supp_swap_finish(m, e, index) ==
  supp_set_swap(frame_free(frame_uninstall(m, e), e), e, index)

\* page.c:421-433
supp_swap(m, e) ==
  IF m.panic THEN m
  ELSE IF m.supp[e].kpage = 0 THEN VmPanic(m)
  ELSE Let(swap_install(m, m.supp[e].kpage), LAMBDA r :
         supp_swap_finish(r.m, e, r.index))

\* A supp_unload that would leave the entry SWAPPED without a slot, the
\* outcome the type test of frame_evict is there to exclude.
supp_unload_as_swapped(m, e) ==
  supp_set_state(frame_free(frame_uninstall(m, e), e), e, "SWAPPED")

\* page.c:134-137
supp_unload_finish(m, e) ==
  supp_set_state(frame_free(frame_uninstall(m, e), e), e, "NOT_LOADED")

\* page.c:130-132
supp_unload_write(m, e) ==
  IF m.panic THEN m
  ELSE IF m.supp[e].type = "MMAP" /\ supp_is_dirty(m, e)
       THEN supp_write_mmap(m, e)
       ELSE m

\* page.c:124-138
supp_unload(m, e) == supp_unload_finish(supp_unload_write(m, e), e)

\* supp_set_accessed (entry, accessed), called at frame.c:125: it sets the
\* accessed bit supp_is_accessed (page.c:678-685) reads.
supp_set_accessed(m, e, accessed) ==
  IF m.panic \/ ~m.pd[e].present THEN m
  ELSE [m EXCEPT !.pd[e].accessed = accessed]

\* The thread never leaves the while (true) of frame.c:112-133: it holds
\* frame_lock, and the run of the memory ends with it.
VmSpin(m) == [m EXCEPT !.panic = TRUE, !.spin = TRUE]

\* frame.c:105-134.  m.scan lists the frames as the loop examines them,
\* each with the pinned flag and the accessed bit it found.  The loop
\* clears an accessed bit it meets, so that after two rounds over the
\* list every frame it has not taken is pinned, and no step of the loop
\* changes a pinned flag: with the fuel of two rounds and one step spent
\* the loop goes on for ever.  list_pop_front on an empty list writes
\* through the null pointer the tail of the list has for its next.
RECURSIVE SecondChanceLoop(_, _)
SecondChanceLoop(m, fuel) ==
  IF m.panic \/ m.ft = <<>>
  THEN [m |-> VmPanic(m), victim |-> <<0, 0>>]
  ELSE IF fuel = 0 THEN [m |-> VmSpin(m), victim |-> <<0, 0>>]
  ELSE Let(Head(m.ft), LAMBDA f :
         Let([m EXCEPT !.ft = Append(Tail(@), f),
                       !.scan = Append(@, [f |-> f,
                                           pinned |-> m.supp[f].pinned,
                                           accessed |-> m.pd[f].accessed])],
             LAMBDA m1 :
           IF m.supp[f].pinned THEN SecondChanceLoop(m1, fuel - 1)
           ELSE IF m.pd[f].accessed
                THEN SecondChanceLoop(supp_set_accessed(m1, f, FALSE),
                                      fuel - 1)
           ELSE [m |-> m1, victim |-> f]))

\* A selection that would take the frame at the head of the list as it
\* is, first in first out.
frame_choose_victim_fifo(m) ==
  IF m.panic \/ m.ft = <<>> THEN [m |-> VmPanic(m), victim |-> <<0, 0>>]
  ELSE [m |-> [m EXCEPT !.ft = Append(Tail(@), Head(@)),
                        !.scan = <<[f |-> Head(m.ft),
                                    pinned |-> m.supp[Head(m.ft)].pinned,
                                    accessed |-> m.pd[Head(m.ft)].accessed]>>],
        victim |-> Head(m.ft)]

frame_choose_victim_second_chance(m) ==
  SecondChanceLoop([m EXCEPT !.scan = <<>>], 2 * Len(m.ft) + 1)

\* frame.c:137-157
frame_evict(m) ==
  Let(frame_choose_victim_second_chance(m), LAMBDA r :
    IF r.m.panic THEN r.m
    ELSE IF r.m.supp[r.victim].type = "MMAP"
         THEN supp_unload(r.m, r.victim)
         ELSE supp_swap(r.m, r.victim))

\* frame.c:178-193
RECURSIVE AllocateLoop(_, _, _, _)
AllocateLoop(m, e, zero, fuel) ==
  Let(frame_allocate(m, e, zero), LAMBDA r :
    IF r.ok \/ r.m.panic THEN r.m
    ELSE IF fuel = 0 THEN VmPanic(m)
    ELSE AllocateLoop(frame_evict(m), e, zero, fuel - 1))

frame_allocate_swap(m, e, zero) == AllocateLoop(m, e, zero, NFrames)

\* page.c:439-457
supp_unswap(m, e) ==
  IF m.panic THEN m
  ELSE Let(frame_allocate_swap(m, e, FALSE), LAMBDA m1 :
         Let(frame_install(m1, e), LAMBDA r :
           IF ~r.ok THEN VmPanic(frame_free(r.m, e))
           ELSE supp_set_state(
                  swap_uninstall(r.m, r.m.supp[e].swap_index,
                                 r.m.supp[e].kpage),
                  e, "LOADED")))

\* page.c:465-518: file_seek (file, ofs); file_read (file, kpage,
\* read_bytes) returns the bytes the file has from ofs on.
supp_load_file(m, e) ==
  IF m.panic THEN [m |-> m, ok |-> FALSE]
  ELSE
    Let(frame_allocate_swap(m, e, FALSE), LAMBDA m1 :
      IF m1.panic THEN [m |-> m1, ok |-> FALSE]
      ELSE
        Let(m1.supp[e], LAMBDA entry :
          Let(Max(0, Min(entry.read_bytes, Len(m1.file) - entry.ofs)),
              LAMBDA bytes_read :
            IF bytes_read # entry.read_bytes
            THEN [m |-> frame_free(m1, e), ok |-> FALSE]
            ELSE
              Let([m1 EXCEPT !.fd[entry.kpage] =
                     [i \in 1..PGSIZE |->
                        IF i <= entry.read_bytes
                        THEN m1.file[entry.ofs + i]
                        ELSE IF i <= entry.read_bytes + entry.zero_bytes
                             THEN 0
                             ELSE @[i]]],
                  LAMBDA m2 :
                Let(frame_install(m2, e), LAMBDA r :
                  IF ~r.ok THEN [m |-> frame_free(r.m, e), ok |-> FALSE]
                  ELSE [m |-> supp_set_state(r.m, e, "LOADED"),
                        ok |-> TRUE])))))

\* page.c:465-518, got being what file_read returns and success what
\* pagedir_set_page returns.  kpage is the page frame_allocate_swap gave.
supp_load_file_env(m, e, got, success) ==
  IF m.panic THEN [m |-> m, ok |-> FALSE, kpage |-> 0]
  ELSE
    Let(frame_allocate_swap(m, e, FALSE), LAMBDA m1 :
      IF m1.panic THEN [m |-> m1, ok |-> FALSE, kpage |-> 0]
      ELSE
        Let(m1.supp[e], LAMBDA entry :
          Let([m1 EXCEPT !.fd[entry.kpage] =
                 [i \in 1..PGSIZE |->
                    IF i <= got THEN m1.file[entry.ofs + i] ELSE @[i]]],
              LAMBDA m2 :
            IF entry.read_bytes > 0 /\ got # entry.read_bytes
            THEN [m |-> frame_free(m2, e), ok |-> FALSE,
                  kpage |-> entry.kpage]
            ELSE
              Let([m2 EXCEPT !.fd[entry.kpage] =
                     [i \in 1..PGSIZE |->
                        IF /\ i > entry.read_bytes
                           /\ i <= entry.read_bytes + entry.zero_bytes
                        THEN 0 ELSE @[i]]],
                  LAMBDA m3 :
                Let(frame_install_env(m3, e, success), LAMBDA r :
                  IF ~r.ok THEN [m |-> frame_free(r.m, e), ok |-> FALSE,
                                 kpage |-> entry.kpage]
                  ELSE [m |-> supp_set_state(r.m, e, "LOADED"),
                        ok |-> TRUE, kpage |-> entry.kpage])))))

\* page.c:146-172: the entry belongs to the calling process.
supp_insert_base(m, e, writable) ==
  IF m.panic \/ m.supp[e].state # "NONE" THEN [m |-> m, ok |-> FALSE]
  ELSE [m |-> [m EXCEPT !.supp[e] =
                 [NoEntry EXCEPT !.state = "NOT_LOADED",
                                 !.writable = writable]],
        ok |-> TRUE]

\* page.c:540-556
supp_insert_code(m, e, ofs, read_bytes, zero_bytes, writable) ==
  Let(supp_insert_base(m, e, writable), LAMBDA r :
    IF ~r.ok THEN r
    ELSE [m |-> [r.m EXCEPT !.supp[e].type = "CODE",
                            !.supp[e].ofs = ofs,
                            !.supp[e].read_bytes = read_bytes,
                            !.supp[e].zero_bytes = zero_bytes],
          ok |-> TRUE])

\* page.c:562-573
supp_insert_mmap(m, e, ofs, read_bytes, zero_bytes, writable) ==
  Let(supp_insert_code(m, e, ofs, read_bytes, zero_bytes, writable),
      LAMBDA r :
    IF ~r.ok THEN r
    ELSE [m |-> [r.m EXCEPT !.supp[e].type = "MMAP"], ok |-> TRUE])

\* page.c:176-194; supp_destroy hands over what supp_find returned, and
\* supp_is_loaded reads through it.
supp_destroy_entry(m, e) ==
  IF m.panic THEN [m |-> m, ok |-> FALSE]
  ELSE IF m.supp[e].state = "NONE" THEN [m |-> VmPanic(m), ok |-> FALSE]
  ELSE Let(IF m.supp[e].state = "LOADED" THEN supp_unload(m, e) ELSE m,
           LAMBDA m1 :
             [m |-> [m1 EXCEPT !.supp[e] = NoEntry], ok |-> ~m1.panic])

\* page.c:198-204
supp_destroy(m, e) == supp_destroy_entry(m, e)

\* page.c:608-631
supp_load_normal(m, e) ==
  IF m.panic THEN [m |-> m, ok |-> FALSE]
  ELSE Let(frame_allocate(m, e, m.supp[e].type = "ZERO"), LAMBDA a :
         IF ~a.ok THEN a
         ELSE Let(frame_install(a.m, e), LAMBDA r :
                IF ~r.ok THEN [m |-> frame_free(r.m, e), ok |-> FALSE]
                ELSE [m |-> supp_set_state(r.m, e, "LOADED"),
                      ok |-> TRUE]))

\* page.c:582-599
supp_insert_stack(m, e, zero, writable) ==
  Let(supp_insert_base(m, e, writable), LAMBDA b :
    IF ~b.ok THEN b
    ELSE Let(IF zero THEN [b.m EXCEPT !.supp[e].type = "ZERO"] ELSE b.m,
             LAMBDA m1 :
           Let(supp_load_normal(m1, e), LAMBDA r :
             IF r.ok \/ r.m.panic THEN r
             ELSE [m |-> supp_destroy_entry(r.m, e).m, ok |-> FALSE])))

\* page.c:207-225
supp_remove_action(m, e) ==
  Let(IF m.supp[e].state = "SWAPPED"
      THEN swap_remove(m, m.supp[e].swap_index) ELSE m, LAMBDA m1 :
    Let(IF m1.supp[e].type = "MMAP" /\ m1.supp[e].state = "LOADED"
           /\ (m1.supp[e].dirty \/ m1.pd[e].dirty)
        THEN supp_write_mmap(m1, e) ELSE m1, LAMBDA m2 :
      IF m2.supp[e].state = "LOADED" THEN frame_remove(m2, e) ELSE m2))

\* page.c:229-238: hash_clear applies the action to every entry of the
\* process and empties the table; pagedir_destroy frees the pages that
\* are still mapped.
RECURSIVE RemoveAllLoop(_, _, _)
RemoveAllLoop(m, p, u) ==
  IF u > NUPages \/ m.panic THEN m
  ELSE Let(<<p, u>>, LAMBDA e :
         RemoveAllLoop(
           IF m.supp[e].state = "NONE" THEN m
           ELSE [supp_remove_action(m, e) EXCEPT !.supp[e] = NoEntry],
           p, u + 1))

supp_remove_all(m, p) ==
  Let(RemoveAllLoop(m, p, 1), LAMBDA m1 :
    [m1 EXCEPT
       !.used = @ \ {m1.pd[<<p, u>>].kpage : u \in UPages},
       !.pd = [e \in Entries |-> IF e[1] = p THEN NoPte ELSE @[e]]])

\* is_kernel_vaddr of threads/vaddr.h: the user pages end at PHYS_BASE,
\* page NUPages + 1 here.
is_kernel_vaddr(upage) == upage > NUPages

\* page.c:242-279; the page e[2] is 0 for the null pointer.
supp_handle_page_fault(m, e) ==
  IF m.panic \/ e[2] = 0 \/ is_kernel_vaddr(e[2])
  THEN [m |-> m, ok |-> FALSE]
  ELSE IF m.supp[e].state = "NONE" THEN [m |-> m, ok |-> FALSE]
  ELSE IF m.supp[e].state = "NOT_LOADED" /\ supp_is_file(m.supp[e])
       THEN supp_load_file(m, e)
  ELSE IF m.supp[e].state = "SWAPPED"
       THEN [m |-> supp_unswap(m, e), ok |-> TRUE]
  ELSE [m |-> m, ok |-> FALSE]

\* load_segment of userprog/process.h:77-79 with is_code false: one mmap
\* entry per page, the file offset advancing by a page.
RECURSIVE load_segment(_, _, _, _, _, _)
load_segment(m, p, ofs, upage, read_bytes, zero_bytes) ==
  IF read_bytes = 0 /\ zero_bytes = 0 THEN [m |-> m, ok |-> TRUE]
  ELSE IF upage > NUPages THEN [m |-> m, ok |-> FALSE]
  ELSE Let(Min(read_bytes, PGSIZE), LAMBDA page_read_bytes :
         Let(supp_insert_mmap(m, <<p, upage>>, ofs, page_read_bytes,
                              PGSIZE - page_read_bytes, TRUE), LAMBDA r :
           IF ~r.ok THEN r
           ELSE load_segment(r.m, p, ofs + PGSIZE, upage + 1,
                             read_bytes - page_read_bytes,
                             zero_bytes - (PGSIZE - page_read_bytes))))

\* mmap.c:9-41
mmap_file_create(m, p, uaddr) ==
  Let(Len(m.file), LAMBDA read_bytes :
    Let(DivRoundUp(read_bytes, PGSIZE) * PGSIZE, LAMBDA byte_cnt :
      Let(load_segment(m, p, 0, uaddr, read_bytes, byte_cnt - read_bytes),
          LAMBDA r :
        [m |-> r.m, ok |-> r.ok,
         mmap_file |-> [open |-> r.ok, owner |-> p, uaddr |-> uaddr,
                        page_cnt |-> byte_cnt \div PGSIZE]])))

\* mmap.c:43-62
RECURSIVE DestroyLoop(_, _, _)
DestroyLoop(m, mmap_file, i) ==
  IF i = mmap_file.page_cnt \/ m.panic THEN m
  ELSE Let(supp_destroy(m, <<mmap_file.owner, mmap_file.uaddr + i>>),
           LAMBDA r :
             IF ~r.ok THEN VmPanic(r.m)
             ELSE DestroyLoop(r.m, mmap_file, i + 1))

mmap_file_destroy(m, mmap_file) == DestroyLoop(m, mmap_file, 0)

-----------------------------------------------------------------------------
(* The virtual-memory specification.  A system call or a page fault of a   *)
(* process runs to its end in one step, except that a fault which evicts   *)
(* a page of another process is three kinds of steps (the choice of the    *)
(* victim with the first part of the eviction, the write of one sector to  *)
(* the swap device, the rest): the handler sleeps in block_write while the *)
(* victim's owner keeps running in user mode with the page still mapped.   *)
(* One handler runs at a time.                                             *)

NoMmap == [open |-> FALSE, owner |-> 0, uaddr |-> 0, page_cnt |-> 0]

NoFault == [active |-> FALSE, e |-> <<0, 0>>, victim |-> <<0, 0>>,
            index |-> 0, sector |-> 0, seen |-> {}]

NoVmOp == [op |-> "none", page |-> <<>>, seen |-> {}, loaded |-> FALSE,
           slot_free |-> FALSE, victim |-> <<0, 0>>, vtype |-> "NORMAL",
           vstate |-> "NONE", vslot |-> FALSE,
           e |-> <<0, 0>>, case |-> "none", ret |-> FALSE]

\* The addresses a fault is taken at: the null page, the user pages and
\* the first kernel page.
FaultPages == 0..(NUPages + 1)

\* What supp_handle_page_fault meets at page e[2] of process e[1].
FaultCase(m, e) ==
  IF e[2] = 0 THEN "null"
  ELSE IF e[2] > NUPages THEN "kernel"
  ELSE IF m.supp[e].state = "NONE" THEN "no_entry"
  ELSE IF m.supp[e].state = "LOADED" THEN "loaded"
  ELSE IF m.supp[e].state = "SWAPPED" THEN "swapped"
  ELSE IF m.supp[e].type \in {"CODE", "MMAP"} THEN "not_loaded_file"
  ELSE "not_loaded_other"

\* Offsets in a page a user store goes to: one in each sector.
StoreOffsets == {i * BLOCK_SECTOR_SIZE + 1 : i \in 0..(PAGE_SECTOR_COUNT - 1)}

VmState ==
  [supp |-> supp, pd |-> pagedir, ft |-> frame_table, fd |-> frame_data,
   used |-> palloc_used, bitmap |-> swap_bitmap, block |-> swap_block,
   file |-> mfile, panic |-> vm_panic, scan |-> <<>>, spin |-> FALSE]

SetVm(m) ==
  /\ supp' = m.supp
  /\ pagedir' = m.pd
  /\ frame_table' = m.ft
  /\ frame_data' = m.fd
  /\ palloc_used' = m.used
  /\ swap_bitmap' = m.bitmap
  /\ swap_block' = m.block
  /\ mfile' = m.file
  /\ vm_panic' = m.panic

VmRunning == ~vm_panic /\ vm_ops < MaxVmOps

\* Process p runs in user mode and may touch its page u: p is not inside
\* the sleeping handler; while a handler sleeps only the accesses to the
\* page being evicted are taken, the others commute with its steps.
UserRuns(p, u) == fault.active => fault.victim = <<p, u>>

\* The faults supp_handle_page_fault resolves.
Resolvable(entry) ==
  \/ entry.state = "SWAPPED"
  \/ entry.state = "NOT_LOADED" /\ supp_is_file(entry)

\* The frame the fault will evict, <<0, 0>> when a page is free.
VictimOf(m) ==
  IF m.used = Frames THEN frame_choose_victim_second_chance(m)
  ELSE [m |-> m, victim |-> <<0, 0>>]

\* What the fault on e did, m0 before and m1 after it.
LastOfUnswap(m0, e, m1) ==
  IF m0.supp[e].state = "SWAPPED" /\ ~m1.panic
  THEN [NoVmOp EXCEPT
          !.op = "unswap",
          !.page = m1.fd[m1.supp[e].kpage],
          !.seen = vm_seen[e],
          !.loaded = m1.supp[e].state = "LOADED",
          !.slot_free = ~m1.bitmap[m0.supp[e].swap_index]]
  ELSE [NoVmOp EXCEPT !.op = "fault"]

\* The same with the case the handler met in m0 and the value r.ok it
\* returned with the state r.m.
LastOfFault(m0, e, r) ==
  [LastOfUnswap(m0, e, r.m) EXCEPT
     !.e = e, !.case = FaultCase(m0, e), !.ret = r.ok]

\* The record last of a fault, with what frame_evict did to its victim:
\* the victim's type, and its state and swap slot in m1, after the fault.
WithVictim(last, victim, m1) ==
  IF victim = <<0, 0>> \/ m1.panic THEN last
  ELSE [last EXCEPT !.victim = victim,
                    !.vtype = m1.supp[victim].type,
                    !.vstate = m1.supp[victim].state,
                    !.vslot = m1.bitmap[m1.supp[victim].swap_index]]

\* The <<zero, writable>> a page is inserted with: a zeroed writable page
\* or a read-only page that keeps what the frame held.
StackInputs == {<<TRUE, TRUE>>, <<FALSE, FALSE>>}

\* supp_insert_stack (upage, zero, writable) by process p.
SuppInsertStack(p, u, zero, writable) ==
  /\ VmRunning
  /\ ~fault.active
  /\ supp[<<p, u>>].state = "NONE"
  /\ \E r \in {supp_insert_stack(VmState, <<p, u>>, zero, writable)} :
       SetVm(r.m)
  /\ vm_last' = [NoVmOp EXCEPT !.op = "insert"]
  /\ vm_ops' = vm_ops + 1
  /\ UNCHANGED <<mmap_table, fault, vm_seen, mview>>
  /\ UNCHANGED notVM

\* The mmap system call of process p: mmap_file_create (file, uaddr).
MmapCreate(p, u) ==
  /\ VmRunning
  /\ ~fault.active
  /\ ~mmap_table.open
  /\ \E r \in {mmap_file_create(VmState, p, u)} :
       /\ SetVm(r.m)
       /\ mmap_table' = IF r.ok THEN r.mmap_file ELSE NoMmap
  /\ vm_last' = [NoVmOp EXCEPT !.op = "mmap"]
  /\ vm_ops' = vm_ops + 1
  /\ UNCHANGED <<fault, vm_seen, mview>>
  /\ UNCHANGED notVM

\* The munmap system call of the mapping's owner: mmap_file_destroy.
Munmap ==
  /\ VmRunning
  /\ ~fault.active
  /\ mmap_table.open
  /\ SetVm(mmap_file_destroy(VmState, mmap_table))
  /\ mmap_table' = NoMmap
  /\ vm_last' = [NoVmOp EXCEPT !.op = "munmap"]
  /\ vm_ops' = vm_ops + 1
  /\ UNCHANGED <<fault, vm_seen, mview>>
  /\ UNCHANGED notVM

\* Process p exits: supp_remove_all (pd).
ProcessExit(p) ==
  /\ VmRunning
  /\ ~fault.active
  /\ \E u \in UPages : supp[<<p, u>>].state # "NONE"
  /\ SetVm(supp_remove_all(VmState, p))
  /\ mmap_table' = IF mmap_table.owner = p THEN NoMmap ELSE mmap_table
  /\ vm_seen' = [e \in Entries |-> IF e[1] = p THEN {} ELSE vm_seen[e]]
  /\ vm_last' = [NoVmOp EXCEPT !.op = "exit"]
  /\ vm_ops' = vm_ops + 1
  /\ UNCHANGED <<fault, mview>>
  /\ UNCHANGED notVM

\* Process p reads from its user page u, which is mapped.
Load(p, u) ==
  /\ VmRunning
  /\ pagedir[<<p, u>>].present
  /\ ~pagedir[<<p, u>>].accessed
  /\ UserRuns(p, u)
  /\ pagedir' = [pagedir EXCEPT ![<<p, u>>].accessed = TRUE]
  /\ vm_last' = NoVmOp
  /\ vm_ops' = vm_ops + 1
  /\ UNCHANGED <<supp, frame_table, frame_data, palloc_used, swap_bitmap,
                 swap_block, mfile, vm_panic, mmap_table, fault, vm_seen,
                 mview>>
  /\ UNCHANGED notVM

\* Process p changes the byte at offset i of its user page u, which is
\* mapped writable.
Store(p, u, i) ==
  /\ VmRunning
  /\ pagedir[<<p, u>>].present
  /\ pagedir[<<p, u>>].writable
  /\ UserRuns(p, u)
  /\ \E page \in {[frame_data[pagedir[<<p, u>>].kpage] EXCEPT
                      ![i] = 1 + (@ % MaxByte)]} :
       /\ frame_data' = [frame_data EXCEPT ![pagedir[<<p, u>>].kpage] = page]
       /\ fault' = IF fault.active /\ fault.victim = <<p, u>>
                   THEN [fault EXCEPT !.seen = @ \cup {page}]
                   ELSE fault
       /\ mview' = IF supp[<<p, u>>].type = "MMAP"
                      /\ i <= supp[<<p, u>>].read_bytes
                   THEN [mview EXCEPT ![supp[<<p, u>>].ofs + i] = page[i]]
                   ELSE mview
  /\ pagedir' = [pagedir EXCEPT ![<<p, u>>].accessed = TRUE,
                                ![<<p, u>>].dirty = TRUE]
  /\ vm_last' = NoVmOp
  /\ vm_ops' = vm_ops + 1
  /\ UNCHANGED <<supp, frame_table, palloc_used, swap_bitmap, swap_block,
                 mfile, vm_panic, mmap_table, vm_seen>>
  /\ UNCHANGED notVM

\* A fault of process p on its user page u that finds a free page or
\* evicts a page of p itself: supp_handle_page_fault.
PageFault(p, u) ==
  /\ VmRunning
  /\ ~fault.active
  /\ Resolvable(supp[<<p, u>>])
  /\ \E sc \in {VictimOf(VmState)} :
       /\ sc.victim[1] \in {0, p}
       /\ \E r \in {supp_handle_page_fault(VmState, <<p, u>>)} :
            /\ SetVm(r.m)
            /\ vm_last' = WithVictim(LastOfFault(VmState, <<p, u>>, r),
                                     sc.victim, r.m)
       /\ vm_seen' =
            [e \in Entries |->
               IF e = <<p, u>> THEN {}
               ELSE IF e = sc.victim /\ supp[e].type # "MMAP"
                    THEN {frame_data[supp[e].kpage]}
                    ELSE vm_seen[e]]
  /\ vm_ops' = vm_ops + 1
  /\ UNCHANGED <<mmap_table, fault, mview>>
  /\ UNCHANGED notVM

\* The most bytes file_read is taken to fall short of read_bytes.
MaxMissing == 1

\* A fault of process p on a page of a file that is not loaded
\* (page.c:263-268), file_read returning all but missing bytes and
\* pagedir_set_page returning success.
LoadFileFault(p, u, missing, success) ==
  /\ VmRunning
  /\ ~fault.active
  /\ FaultCase(VmState, <<p, u>>) = "not_loaded_file"
  /\ missing <= supp[<<p, u>>].read_bytes
  /\ \E got \in {supp[<<p, u>>].read_bytes - missing} :
       \E r \in {supp_load_file_env(VmState, <<p, u>>, got, success)} :
         /\ SetVm(r.m)
         /\ vm_last' = [op |-> "load_file", e |-> <<p, u>>, ret |-> r.ok,
                        got |-> got,
                        read_bytes |-> supp[<<p, u>>].read_bytes,
                        success |-> success, kpage |-> r.kpage] @@ NoVmOp
  /\ vm_ops' = vm_ops + 1
  /\ UNCHANGED <<mmap_table, fault, vm_seen, mview>>
  /\ UNCHANGED notVM

\* A fault of process p at page a that supp_handle_page_fault does not
\* serve: it returns before it reaches supp_load_file or supp_unswap.
PageFaultRefused(p, a) ==
  /\ VmRunning
  /\ ~fault.active
  /\ FaultCase(VmState, <<p, a>>) \notin {"swapped", "not_loaded_file"}
  /\ \E r \in {supp_handle_page_fault(VmState, <<p, a>>)} :
       /\ SetVm(r.m)
       /\ vm_last' = [NoVmOp EXCEPT !.op = "fault",
                                    !.case = FaultCase(VmState, <<p, a>>),
                                    !.ret = r.ok]
  /\ vm_ops' = vm_ops + 1
  /\ UNCHANGED <<mmap_table, fault, vm_seen, mview>>
  /\ UNCHANGED notVM

\* A fault of process p that evicts a page of another process, up to the
\* first block_write of swap_install (frame.c:184-188, page.c:421-429,
\* swap.c:74-85) or to the write-back of supp_unload (page.c:124-132).
FaultBeginEvict(p, u) ==
  /\ VmRunning
  /\ ~fault.active
  /\ Resolvable(supp[<<p, u>>])
  /\ \E sc \in {VictimOf(VmState)} :
       /\ sc.victim[1] \notin {0, p}
       /\ \E r \in {IF supp[sc.victim].type = "MMAP"
                    THEN [m |-> supp_unload_write(sc.m, sc.victim),
                          index |-> 0]
                    ELSE swap_scan_and_flip(sc.m)} :
            /\ SetVm(r.m)
            /\ fault' = [active |-> ~r.m.panic,
                         e |-> <<p, u>>,
                         victim |-> sc.victim,
                         index |-> r.index,
                         sector |-> IF supp[sc.victim].type = "MMAP"
                                    THEN PAGE_SECTOR_COUNT ELSE 0,
                         seen |-> {frame_data[supp[sc.victim].kpage]}]
  /\ vm_last' = NoVmOp
  /\ vm_ops' = vm_ops + 1
  /\ UNCHANGED <<mmap_table, vm_seen, mview>>
  /\ UNCHANGED notVM

\* The evicting handler writes the next sector of the victim's page to
\* the swap slot (swap.c:55-56).
EvictWriteSector ==
  /\ ~vm_panic
  /\ fault.active
  /\ fault.sector < PAGE_SECTOR_COUNT
  /\ SetVm(block_write_sector(VmState, fault.index, fault.sector,
                              frame_data[supp[fault.victim].kpage]))
  /\ fault' = [fault EXCEPT !.sector = @ + 1]
  /\ UNCHANGED <<mmap_table, vm_seen, mview, vm_last, vm_ops>>
  /\ UNCHANGED notVM

\* The evicting handler unmaps and frees the victim's page (page.c:430-432
\* or page.c:134-137) and then serves the fault with the free page
\* (frame.c:189, then the rest of supp_load_file or supp_unswap).
EvictFinish ==
  /\ ~vm_panic
  /\ fault.active
  /\ fault.sector = PAGE_SECTOR_COUNT
  /\ \E m1 \in {IF supp[fault.victim].type = "MMAP"
                THEN supp_unload_finish(VmState, fault.victim)
                ELSE supp_swap_finish(VmState, fault.victim, fault.index)} :
       \E r \in {supp_handle_page_fault(m1, fault.e)} :
         /\ SetVm(r.m)
         /\ vm_last' = WithVictim(LastOfFault(VmState, fault.e, r),
                                  fault.victim, r.m)
  /\ vm_seen' =
       [e \in Entries |->
          IF e = fault.e THEN {}
          ELSE IF e = fault.victim /\ supp[e].type # "MMAP"
               THEN fault.seen
               ELSE vm_seen[e]]
  /\ fault' = NoFault
  /\ UNCHANGED <<mmap_table, mview, vm_ops>>
  /\ UNCHANGED notVM

\* ---- One victim selection over every frame list ----

\* The longest frame list a selection is given.
MaxScanFrames == 3

Range(seq) == {seq[i] : i \in 1..Len(seq)}

\* The lists of at most MaxScanFrames entries, none of them twice.
FrameLists ==
  UNION {{ft \in [1..n -> Entries] :
            \A i, j \in 1..n : i # j => ft[i] # ft[j]} :
         n \in 1..MaxScanFrames}

NoScan == [stage |-> "none", ft |-> <<>>, pinned |-> {}, accessed |-> {}]

\* A frame list with the pinned flags and accessed bits of its frames.
ScanInputs ==
  UNION {[stage : {"input"}, ft : {ft}, pinned : SUBSET Range(ft),
          accessed : SUBSET Range(ft)] : ft \in FrameLists}

\* The memory of the input in: its frames LOADED and mapped.
ScanMemory(in) ==
  [VmState EXCEPT
     !.ft = in.ft,
     !.supp = [e \in Entries |->
                 IF e \in Range(in.ft)
                 THEN [NoEntry EXCEPT !.state = "LOADED", !.kpage = 1,
                                      !.pinned = e \in in.pinned]
                 ELSE NoEntry],
     !.pd = [e \in Entries |->
               IF e \in Range(in.ft)
               THEN [NoPte EXCEPT !.present = TRUE, !.kpage = 1,
                                  !.accessed = e \in in.accessed]
               ELSE NoPte]]

\* frame_choose_victim_second_chance () on the frame list of scan.
ChooseVictim ==
  /\ scan.stage = "input"
  /\ \E r \in {frame_choose_victim_second_chance(ScanMemory(scan))} :
       scan' = [stage |-> "done", ft |-> scan.ft, pinned |-> scan.pinned,
                accessed |-> scan.accessed, victim |-> r.victim,
                trace |-> r.m.scan, ft_out |-> r.m.ft,
                accessed_out |-> {e \in Range(scan.ft) : r.m.pd[e].accessed},
                panic |-> r.m.panic]
  /\ UNCHANGED notScan

\* The memory of the input in with no free page in the user pool: frame i
\* of the list has page i, and the pages of no frame of the list belong to
\* entries that are being loaded.
ScanMemoryFull(in) ==
  [ScanMemory(in) EXCEPT
     !.used = Frames,
     !.supp = [e \in Entries |->
                 IF e \in Range(in.ft)
                 THEN [@[e] EXCEPT !.kpage =
                         CHOOSE i \in 1..Len(in.ft) : in.ft[i] = e]
                 ELSE @[e]],
     !.pd = [e \in Entries |->
               IF e \in Range(in.ft)
               THEN [@[e] EXCEPT !.kpage =
                       CHOOSE i \in 1..Len(in.ft) : in.ft[i] = e]
               ELSE @[e]]]

\* frame_allocate_swap (PAL_USER, e) for an entry e that has no frame, with
\* the user pool full.
AllocateSwap(e) ==
  /\ scan.stage = "input"
  /\ Len(scan.ft) <= NFrames
  /\ e \notin Range(scan.ft)
  /\ \E r \in {frame_allocate_swap(ScanMemoryFull(scan), e, FALSE)} :
       scan' = [stage |-> "allocated", ft |-> scan.ft, pinned |-> scan.pinned,
                accessed |-> scan.accessed, e |-> e,
                kpage |-> r.supp[e].kpage, ft_out |-> r.ft,
                swapped |-> {f \in Range(scan.ft) :
                               r.supp[f].state = "SWAPPED"},
                panic |-> r.panic, spin |-> r.spin]
  /\ UNCHANGED notScan

NextScan == ChooseVictim \/ \E e \in Entries : AllocateSwap(e)

NextVM ==
  \/ \E p \in Procs, u \in UPages, in \in StackInputs :
       SuppInsertStack(p, u, in[1], in[2])
  \/ \E p \in {MmapProc}, u \in UPages : MmapCreate(p, u)
  \/ Munmap
  \/ \E p \in Procs : ProcessExit(p)
  \/ \E p \in Procs, u \in UPages : Load(p, u)
  \/ \E p \in Procs, u \in UPages, i \in StoreOffsets : Store(p, u, i)
  \/ \E p \in Procs, u \in UPages : PageFault(p, u)
  \/ \E p \in Procs, a \in FaultPages : PageFaultRefused(p, a)
  \/ \E p \in Procs, u \in UPages : FaultBeginEvict(p, u)
  \/ EvictWriteSector
  \/ EvictFinish

-----------------------------------------------------------------------------
(* Directories and path names: filesys/directory.c, filesys/filesys.c and  *)
(* filesys/path.c over the list of open inodes of filesys/inode.c, as      *)
(* operators on a record g = [c, fm, panic, open, uaf].  A struct inode *  *)
(* and a struct dir * are the sector of the inode they stand for.          *)

\* filesys.c:360, directory.c:65
ROOT_DIR_SECTOR == 1

\* sizeof (struct dir_entry): inode_sector, name and in_use, one cell each
\* (directory.c:22-27, scaled).
DIR_ENTRY_SIZE == 3

\* The entries a new directory has room for (16 in filesys.c:194 and 360,
\* scaled to the cells of a direct inode).
DirEntryCnt == 4

\* File names are numbers; the two after the last one are "." and "..".
MaxName == 2

Names == 1..MaxName
Dot == MaxName + 1
DotDot == MaxName + 2

\* The null pointer.
NullInode == -1

\* What the memory of a struct inode holds in open_cnt once free () has
\* taken it: the 0 the last inode_close left, or the 0xcc of a debug build.
StaleOpenCnt == {0, 204}

\* The place of the struct inode of SECTOR in open_inodes, 0 if it has none.
OpenIdx(g, sector) ==
  IF \E i \in 1..Len(g.open) : g.open[i].sector = sector
    THEN CHOOSE i \in 1..Len(g.open) : g.open[i].sector = sector
    ELSE 0

\* inode.c:476-507, inode_reopen for an inode that is open already
inode_open(g, sector) ==
  Let(OpenIdx(g, sector),
      LAMBDA i :
        IF i # 0 THEN [g EXCEPT !.open[i].open_cnt = @ + 1]
        ELSE Let(fs_read(g, sector),
                 LAMBDA r :
                   [r.f EXCEPT
                      !.open = <<[sector |-> sector, open_cnt |-> 1,
                                  removed |-> FALSE, deny_write_cnt |-> 0,
                                  data |-> FromSector(r.buf)]>> \o @]))

\* inode.c:566-588.  On a struct inode that was freed, --open_cnt works on
\* the stale word: were that 1 in some build, the freed inode would be
\* unlinked and freed again.
inode_close(g, inode) ==
  IF inode = NullInode \/ Stopped(g) THEN g
  ELSE
    Let(OpenIdx(g, inode),
        LAMBDA i :
          IF i = 0
            THEN IF \A stale \in StaleOpenCnt : stale - 1 # 0
                   THEN [g EXCEPT !.uaf = TRUE]
                   ELSE Panic([g EXCEPT !.uaf = TRUE])
          ELSE IF g.open[i].open_cnt - 1 # 0
            THEN [g EXCEPT !.open[i].open_cnt = @ - 1]
          ELSE
            Let([g EXCEPT !.open = [j \in 1..(Len(g.open) - 1) |->
                                      IF j < i THEN g.open[j]
                                      ELSE g.open[j + 1]]],
                LAMBDA g1 :
                  IF g.open[i].removed
                    THEN inode_disk_remove(free_map_release(g1, inode),
                                           g.open[i].data, Fuel)
                    ELSE g1))

\* inode.c:592-597.  On a freed struct inode the store goes to free memory.
inode_remove(g, inode) ==
  Let(OpenIdx(g, inode),
      LAMBDA i : IF i = 0 THEN [g EXCEPT !.uaf = TRUE]
                 ELSE [g EXCEPT !.open[i].removed = TRUE])

\* inode.c:894-898
inode_is_dir(g, inode) ==
  Let(OpenIdx(g, inode),
      LAMBDA i : i # 0 /\ g.open[i].data.is_dir # 0)

\* inode.c:707-712, inode_read_at (inode, buffer, size, offset): the bytes
\* read.
inode_read_at(g, inode, size, offset) ==
  inode_disk_read_at(g, g.open[OpenIdx(g, inode)].data, size, offset, Fuel)

\* inode_write_at (inode, buffer, size, offset) on the inode of open_inodes.
inode_write(g, inode, buffer, offset) ==
  Let(OpenIdx(g, inode),
      LAMBDA i :
        Let(inode_write_at(g, g.open[i], buffer, Len(buffer), offset),
            LAMBDA w : [g |-> [w.f EXCEPT !.open[i].data = w.data],
                        n |-> w.n]))

\* directory.c:31-35
dir_create(g, sector, entry_cnt) ==
  inode_create(g, sector, entry_cnt * DIR_ENTRY_SIZE, 1)

\* directory.c:77-85
dir_close(g, dir) == inode_close(g, dir)

\* directory.c:62-66
dir_open_root(g) == inode_open(g, ROOT_DIR_SECTOR)

\* directory.c:103-111, the for loop
RECURSIVE IsEmptyLoop(_, _, _)
IsEmptyLoop(g, dir, ofs) ==
  Let(inode_read_at(g, dir, DIR_ENTRY_SIZE, ofs),
      LAMBDA r :
        IF Len(r.buf) # DIR_ENTRY_SIZE \/ Stopped(r.f)
          THEN [g |-> r.f, empty |-> TRUE]
        ELSE IF r.buf[3] # 0 /\ r.buf[2] \notin {Dot, DotDot}
          THEN [g |-> r.f, empty |-> FALSE]
        ELSE IsEmptyLoop(r.f, dir, ofs + DIR_ENTRY_SIZE))

\* directory.c:95-114
dir_is_empty(g, dir) == IsEmptyLoop(g, dir, 0)

\* directory.c:131-141, the for loop
RECURSIVE LookupLoop(_, _, _, _)
LookupLoop(g, dir, name, ofs) ==
  Let(inode_read_at(g, dir, DIR_ENTRY_SIZE, ofs),
      LAMBDA r :
        IF Len(r.buf) # DIR_ENTRY_SIZE \/ Stopped(r.f)
          THEN [g |-> r.f, found |-> FALSE, e |-> <<0, 0, 0>>, ofs |-> ofs]
        ELSE IF r.buf[3] # 0 /\ r.buf[2] = name
          THEN [g |-> r.f, found |-> TRUE, e |-> r.buf, ofs |-> ofs]
        ELSE LookupLoop(r.f, dir, name, ofs + DIR_ENTRY_SIZE))

\* directory.c:121-142
lookup(g, dir, name) == LookupLoop(g, dir, name, 0)

\* directory.c:148-162
dir_lookup(g, dir, name) ==
  Let(lookup(g, dir, name),
      LAMBDA l :
        IF l.found THEN [g |-> inode_open(l.g, l.e[1]), inode |-> l.e[1]]
        ELSE [g |-> l.g, inode |-> NullInode])

\* directory.c:195-198, the for loop: the offset of the first free slot,
\* or the end of the file.
RECURSIVE FreeSlotLoop(_, _, _)
FreeSlotLoop(g, dir, ofs) ==
  Let(inode_read_at(g, dir, DIR_ENTRY_SIZE, ofs),
      LAMBDA r :
        IF Len(r.buf) # DIR_ENTRY_SIZE \/ Stopped(r.f) \/ r.buf[3] = 0
          THEN [g |-> r.f, ofs |-> ofs]
        ELSE FreeSlotLoop(r.f, dir, ofs + DIR_ENTRY_SIZE))

\* directory.c:170-208
dir_add(g, dir, name, inode_sector) ==
  Let(lookup(g, dir, name),
      LAMBDA l :
        IF l.found THEN [g |-> l.g, ok |-> FALSE]
        ELSE
          Let(FreeSlotLoop(l.g, dir, 0),
              LAMBDA s :
                Let(inode_write(s.g, dir, <<inode_sector, name, 1>>, s.ofs),
                    LAMBDA w : [g |-> w.g, ok |-> w.n = DIR_ENTRY_SIZE])))

\* directory.c:234-241: an inode that is a directory is opened as one,
\* examined and closed again, which closes the inode itself.
RemoveCheckEmpty(g, inode) ==
  IF inode_is_dir(g, inode)
    THEN Let(dir_is_empty(g, inode),
             LAMBDA d : [g |-> dir_close(d.g, inode), empty |-> d.empty])
    ELSE [g |-> g, empty |-> TRUE]

\* A dir_remove that would not look into the directory it removes.
dir_remove_unchecked(g, dir, name) ==
  Let(lookup(g, dir, name),
      LAMBDA l :
        IF ~l.found THEN [g |-> l.g, ok |-> FALSE]
        ELSE
          Let(inode_write(inode_open(l.g, l.e[1]), dir,
                          <<l.e[1], l.e[2], 0>>, l.ofs),
              LAMBDA w :
                IF w.n # DIR_ENTRY_SIZE
                  THEN [g |-> inode_close(w.g, l.e[1]), ok |-> FALSE]
                  ELSE [g |-> inode_close(inode_remove(w.g, l.e[1]),
                                          l.e[1]),
                        ok |-> TRUE]))

\* directory.c:213-255
dir_remove(g, dir, name) ==
  Let(lookup(g, dir, name),
      LAMBDA l :
        IF ~l.found THEN [g |-> l.g, ok |-> FALSE]
        ELSE
          Let(RemoveCheckEmpty(inode_open(l.g, l.e[1]), l.e[1]),
              LAMBDA c :
                IF ~c.empty
                  THEN [g |-> inode_close(c.g, l.e[1]), ok |-> FALSE]
                ELSE
                  Let(inode_write(c.g, dir, <<l.e[1], l.e[2], 0>>, l.ofs),
                      LAMBDA w :
                        IF w.n # DIR_ENTRY_SIZE
                          THEN [g |-> inode_close(w.g, l.e[1]),
                                ok |-> FALSE]
                          ELSE [g |-> inode_close(inode_remove(w.g, l.e[1]),
                                                  l.e[1]),
                                ok |-> TRUE])))

\* A dir_readdir that would not skip the slots that are not in use.
RECURSIVE dir_readdir_any(_, _, _)
dir_readdir_any(g, dir, pos) ==
  Let(inode_read_at(g, dir, DIR_ENTRY_SIZE, pos),
      LAMBDA r :
        IF Len(r.buf) # DIR_ENTRY_SIZE \/ Stopped(r.f)
          THEN [g |-> r.f, ok |-> FALSE, name |-> 0, pos |-> pos]
        ELSE IF r.buf[2] \notin {Dot, DotDot}
          THEN [g |-> r.f, ok |-> TRUE, name |-> r.buf[2],
                pos |-> pos + DIR_ENTRY_SIZE]
        ELSE dir_readdir_any(r.f, dir, pos + DIR_ENTRY_SIZE))

\* directory.c:260-279: the name read and the new dir->pos.
RECURSIVE dir_readdir(_, _, _)
dir_readdir(g, dir, pos) ==
  Let(inode_read_at(g, dir, DIR_ENTRY_SIZE, pos),
      LAMBDA r :
        IF Len(r.buf) # DIR_ENTRY_SIZE \/ Stopped(r.f)
          THEN [g |-> r.f, ok |-> FALSE, name |-> 0, pos |-> pos]
        ELSE IF r.buf[3] # 0 /\ r.buf[2] \notin {Dot, DotDot}
          THEN [g |-> r.f, ok |-> TRUE, name |-> r.buf[2],
                pos |-> pos + DIR_ENTRY_SIZE]
        ELSE dir_readdir(r.f, dir, pos + DIR_ENTRY_SIZE))

\* directory.c:295-315.  No process of this kernel has a working directory
\* (nothing in the sources sets current_dir), so this is the root.
dir_open_current(g) == dir_open_root(g)

\* directory.c:320-341
dir_add_dot(g, parent, dir) ==
  Let(dir_add(g, dir, Dot, dir),
      LAMBDA a :
        IF ~a.ok THEN a
        ELSE Let(dir_add(a.g, dir, DotDot, parent),
                 LAMBDA b :
                   IF b.ok THEN b
                   ELSE [g |-> dir_remove(b.g, dir, Dot).g, ok |-> FALSE]))

\* path.c:57-108 on a path given as its names: the parent part and the base
\* name.
path_split_names(path) ==
  [parent |-> SubSeq(path, 1, Len(path) - 1), base |-> path[Len(path)]]

\* filesys.c:79-99, the for loop.  A component that is a file ends the
\* walk with its inode still open.
RECURSIVE OpenDirLoop(_, _, _, _)
OpenDirLoop(g, dir, path, k) ==
  IF k > Len(path) \/ Stopped(g) THEN [g |-> g, dir |-> dir]
  ELSE
    Let(dir_lookup(g, dir, path[k]),
        LAMBDA l :
          IF l.inode = NullInode
            THEN [g |-> dir_close(l.g, dir), dir |-> NullInode]
          ELSE
            Let(dir_close(l.g, dir),
                LAMBDA g1 :
                  IF inode_is_dir(g1, l.inode)
                    THEN OpenDirLoop(g1, l.inode, path, k + 1)
                    ELSE [g |-> g1, dir |-> NullInode]))

\* filesys.c:57-117
filesys_open_dir_length(g, path) ==
  IF Len(path) = 0 THEN [g |-> dir_open_current(g), dir |-> ROOT_DIR_SECTOR]
  ELSE OpenDirLoop(dir_open_root(g), ROOT_DIR_SECTOR, path, 1)

\* filesys.c:156-158 and 208-210: what a failed creation gives back.
CreateCleanUp(g, inode_sector, parent_dir) ==
  dir_close(IF inode_sector # 0 THEN free_map_release(g, inode_sector)
            ELSE g,
            parent_dir)

\* filesys.c:123-162
filesys_create(g, path, initial_size) ==
  Let(filesys_open_dir_length(g, path_split_names(path).parent),
      LAMBDA o :
        IF o.dir = NullInode
          THEN [g |-> CreateCleanUp(o.g, 0, o.dir), ok |-> FALSE]
        ELSE
          Let(free_map_allocate(o.g),
              LAMBDA a :
                IF ~a.ok
                  THEN [g |-> CreateCleanUp(a.f, 0, o.dir), ok |-> FALSE]
                ELSE
                  Let(inode_create(a.f, a.sector, initial_size, 0),
                      LAMBDA c :
                        IF ~c.ok
                          THEN [g |-> CreateCleanUp(c.f, a.sector, o.dir),
                                ok |-> FALSE]
                        ELSE
                          Let(dir_add(c.f, o.dir, path_split_names(path).base,
                                      a.sector),
                              LAMBDA d :
                                IF ~d.ok
                                  THEN [g |-> CreateCleanUp(d.g, a.sector,
                                                            o.dir),
                                        ok |-> FALSE]
                                  ELSE [g |-> dir_close(d.g, o.dir),
                                        ok |-> TRUE]))))

\* filesys.c:198-205: the new directory gets "." and "..", and leaves its
\* parent again when it cannot have them.
CreateDirDots(g, parent_dir, base_name, inode_sector) ==
  Let(dir_add_dot(inode_open(g, inode_sector), parent_dir, inode_sector),
      LAMBDA d :
        Let(dir_close(d.g, inode_sector),
            LAMBDA g1 :
              IF d.ok THEN [g |-> dir_close(g1, parent_dir), ok |-> TRUE]
              ELSE [g |-> CreateCleanUp(dir_remove(g1, parent_dir,
                                                   base_name).g,
                                        inode_sector, parent_dir),
                    ok |-> FALSE]))

\* filesys.c:170-214
filesys_create_dir(g, path) ==
  Let(filesys_open_dir_length(g, path_split_names(path).parent),
      LAMBDA o :
        IF o.dir = NullInode
          THEN [g |-> CreateCleanUp(o.g, 0, o.dir), ok |-> FALSE]
        ELSE
          Let(free_map_allocate(o.g),
              LAMBDA a :
                IF ~a.ok
                  THEN [g |-> CreateCleanUp(a.f, 0, o.dir), ok |-> FALSE]
                ELSE
                  Let(dir_create(a.f, a.sector, DirEntryCnt),
                      LAMBDA c :
                        IF ~c.ok
                          THEN [g |-> CreateCleanUp(c.f, a.sector, o.dir),
                                ok |-> FALSE]
                        ELSE
                          Let(dir_add(c.f, o.dir, path_split_names(path).base,
                                      a.sector),
                              LAMBDA d :
                                IF ~d.ok
                                  THEN [g |-> CreateCleanUp(d.g, a.sector,
                                                            o.dir),
                                        ok |-> FALSE]
                                  ELSE CreateDirDots(d.g, o.dir,
                                                     path_split_names(path).base,
                                                     a.sector)))))

\* filesys.c:323-352
filesys_remove(g, name) ==
  Let(filesys_open_dir_length(g, path_split_names(name).parent),
      LAMBDA o :
        IF o.dir = NullInode THEN [g |-> o.g, ok |-> FALSE]
        ELSE Let(dir_remove(o.g, o.dir, path_split_names(name).base),
                 LAMBDA r : [g |-> dir_close(r.g, o.dir), ok |-> r.ok]))

\* file_open (inode) and file_close (file) of filesys/file.c: a struct
\* file * is the sector of its inode; file_close closes the inode.
file_open(g, inode) == [g |-> g, file |-> inode]

file_close(g, file) == inode_close(g, file)

\* inode.c:511-516
inode_reopen(g, inode) ==
  Let(OpenIdx(g, inode),
      LAMBDA i : IF i = 0 THEN [g EXCEPT !.uaf = TRUE]
                 ELSE [g EXCEPT !.open[i].open_cnt = @ + 1])

\* filesys.c:285-301: the end of the walk and the label fail.
OpenFail(g, dir, file) ==
  Let(IF dir # NullInode THEN dir_close(g, dir) ELSE g,
      LAMBDA g1 :
        [g |-> IF file # NullInode THEN file_close(g1, file) ELSE g1,
         file |-> NullInode])

\* filesys.c:250-273, the for loop, and 275-291.
RECURSIVE OpenLoop(_, _, _, _, _)
OpenLoop(g, dir, file, name, k) ==
  IF Stopped(g) THEN [g |-> g, file |-> NullInode]
  ELSE IF k > Len(name)
    THEN IF dir # NullInode
           THEN [g |-> dir_close(inode_reopen(g, dir), dir), file |-> dir]
           ELSE [g |-> g, file |-> file]
  ELSE IF dir = NullInode THEN OpenFail(g, dir, file)
  ELSE
    Let(dir_lookup(g, dir, name[k]),
        LAMBDA l :
          IF l.inode = NullInode THEN OpenFail(l.g, dir, file)
          ELSE
            Let(dir_close(l.g, dir),
                LAMBDA g1 :
                  IF inode_is_dir(g1, l.inode)
                    THEN OpenLoop(g1, l.inode, file, name, k + 1)
                    ELSE OpenLoop(g1, NullInode, l.inode, name, k + 1)))

\* filesys.c:221-301 for a name that is not the empty string; NAME has the
\* tokens of the string, none for "/".
filesys_open(g, name) == OpenLoop(dir_open_root(g), ROOT_DIR_SECTOR, NullInode, name, 1)

\* filesys.c:221-237 for the empty string: the directory is opened at line
\* 231 and the function returns at line 236.
filesys_open_empty(g) == [g |-> dir_open_current(g), file |-> NullInode]

\* filesys.c:308-316 for a name that is not the empty string.
filesys_open_dir(g, name) ==
  IF Len(name) = 0 THEN [g |-> dir_open_root(g), dir |-> ROOT_DIR_SECTOR]
  ELSE filesys_open_dir_length(g, name)

\* filesys.c:356-364.  The free map is made with its own sector and the
\* sector of the root directory taken.
do_format(g) ==
  Let(dir_create(g, ROOT_DIR_SECTOR, DirEntryCnt),
      LAMBDA c : IF c.ok THEN c.f ELSE Panic(c.f))

\* The readdir system call, again and again on one handle until it returns
\* false: the names it gave, first one first.
RECURSIVE ReaddirAll(_, _, _, _)
ReaddirAll(g, dir, pos, names) ==
  Let(dir_readdir(g, dir, pos),
      LAMBDA r :
        IF ~r.ok THEN [g |-> r.g, names |-> names]
        ELSE ReaddirAll(r.g, dir, r.pos, Append(names, r.name)))

-----------------------------------------------------------------------------
(* The directory specification: the calls of filesys.h on path names.     *)

\* Sectors of the device of the directory specification.
DirSectors == 16

\* Calls of filesys.h in one run that change the file system, formatting
\* included.
MaxFsOps == 6

\* The path names: files are made at "/1", "/2" and "/1/1/1", directories
\* at "/1" and "/1/1"; any of them is removed; "/", "/1" and "/1/1" are
\* listed.  New files have one byte.
FilePaths == {<<1>>, <<2>>, <<1, 1, 1>>}
NewDirPaths == {<<1>>, <<1, 1>>}
Paths == FilePaths \cup NewDirPaths
DirPaths == {<<>>, <<1>>, <<1, 1>>}
CreateSizes == {1}

NoFsOp == [op |-> "none", path |-> <<>>, size |-> 0, ret |-> FALSE,
           existed |-> FALSE, fm_same |-> FALSE, kept |-> FALSE,
           was_dir |-> FALSE, nonempty |-> FALSE, entry_kept |-> FALSE,
           marked |-> FALSE, refused |-> FALSE, uaf |-> FALSE,
           names |-> <<>>, slots |-> <<>>, added |-> <<>>,
           holes |-> FALSE]

FsState == [c |-> CacheState, fm |-> free_map, panic |-> inode_panic,
            open |-> open_inodes, uaf |-> FALSE]

SetFs(g) ==
  /\ SetInode(g)
  /\ open_inodes' = g.open

FsRunning ==
  fs_formatted /\ ~inode_panic /\ ~cache_panic /\ fs_ops < MaxFsOps

\* What sector s holds now: its cache slot if it has one, else the device.
SectorNow(c, s) ==
  IF s \notin DOMAIN c.dev THEN Fill(0)
  ELSE IF ~c.en THEN c.dev[s]
  ELSE Let(filesys_cache_lookup(c, s),
           LAMBDA i : IF i # 0 THEN c.cache[i].data ELSE c.dev[s])

\* The slots of the directory whose inode is in SECTOR, as they are now:
\* a sequence of <<inode_sector, name, in_use>>.
EntriesNow(c, sector) ==
  Let(SectorNow(c, sector),
      LAMBDA d :
        Let(SectorNow(c, d[4]) \o SectorNow(c, d[5]),
            LAMBDA cells :
              [k \in 1..DirEntryCnt |->
                 SubSeq(cells, DIR_ENTRY_SIZE * (k - 1) + 1,
                        DIR_ENTRY_SIZE * k)]))

\* The slots among ENTRIES that are in use and hold NAME.
SlotsIn(entries, name) ==
  {k \in 1..Len(entries) : entries[k][3] # 0 /\ entries[k][2] = name}

\* The slots of the directory that are in use and hold NAME.
SlotsOf(c, sector, name) == SlotsIn(EntriesNow(c, sector), name)

\* The sector of the inode that PATH names now, NullInode if it names none.
RECURSIVE ResolveNow(_, _, _, _)
ResolveNow(c, sector, path, k) ==
  IF k > Len(path) THEN sector
  ELSE IF SectorNow(c, sector)[3] = 0 THEN NullInode
  ELSE Let(EntriesNow(c, sector),
           LAMBDA es :
             Let(SlotsIn(es, path[k]),
                 LAMBDA hits :
                   IF hits = {} THEN NullInode
                   ELSE ResolveNow(c,
                                   es[CHOOSE i \in hits :
                                        \A j \in hits : i <= j][1],
                                   path, k + 1)))

PathNow(c, path) == ResolveNow(c, ROOT_DIR_SECTOR, path, 1)

IsDirNow(c, sector) ==
  sector # NullInode /\ SectorNow(c, sector)[3] # 0

\* The names in the slots in use of a directory, "." and ".." left out, in
\* the order of the slots.
RECURSIVE NamesFrom(_, _)
NamesFrom(entries, k) ==
  IF k > Len(entries) THEN <<>>
  ELSE (IF entries[k][3] # 0 /\ entries[k][2] \notin {Dot, DotDot}
          THEN <<entries[k][2]>> ELSE <<>>) \o NamesFrom(entries, k + 1)

\* The place in fs_tree of what PATH names, 0 if it names nothing.
TreeIdx(path) ==
  IF \E i \in 1..Len(fs_tree) : fs_tree[i].path = path
    THEN CHOOSE i \in 1..Len(fs_tree) : fs_tree[i].path = path
    ELSE 0

TreeItem(path, is_dir) ==
  [path |-> path, is_dir |-> is_dir, refused |-> FALSE, holes |-> FALSE]

\* The names made in the directory PATH and not removed, oldest first.
RECURSIVE AddedFrom(_, _)
AddedFrom(path, i) ==
  IF i > Len(fs_tree) THEN <<>>
  ELSE (IF Len(fs_tree[i].path) = Len(path) + 1
            /\ SubSeq(fs_tree[i].path, 1, Len(path)) = path
          THEN <<fs_tree[i].path[Len(path) + 1]>> ELSE <<>>)
       \o AddedFrom(path, i + 1)

\* 1 for a call that succeeded, took or gave back sectors or left an inode
\* open, else 0.
Changed(r) ==
  IF r.ok \/ r.g.fm # free_map \/ r.g.open # open_inodes THEN 1 ELSE 0

\* filesys_init (true): do_format on the new device.
FilesysInit ==
  /\ ~fs_formatted
  /\ ~inode_panic /\ ~cache_panic
  /\ \E g \in {do_format(FsState)} : SetFs(g)
  /\ fs_formatted' = TRUE
  /\ fs_tree' = <<TreeItem(<<>>, TRUE)>>
  /\ fs_last' = [NoFsOp EXCEPT !.op = "format"]
  /\ fs_ops' = fs_ops + 1
  /\ UNCHANGED <<cache_enables, shadow, last_read, created, free_map0,
                 fm_removed, file_data, inode_last, inode_ops, fs_handles,
                 notDir>>

\* What a creation leaves in fs_last.
CreateLast(op, path, size, r) ==
  [NoFsOp EXCEPT
     !.op = op, !.path = path, !.size = size, !.ret = r.ok,
     !.existed =
       /\ IsDirNow(CacheState, PathNow(CacheState, path_split_names(path).parent))
       /\ PathNow(CacheState, path) # NullInode,
     !.fm_same = r.g.fm = free_map,
     !.kept = \A s \in free_map : SectorNow(r.g.c, s) = SectorNow(CacheState, s),
     !.uaf = r.g.uaf]

\* The create system call: filesys_create (path, size).
FsCreate(path, size) ==
  /\ FsRunning
  /\ \E r \in {filesys_create(FsState, path, size)} :
       /\ \E g \in {r.g} : SetFs(g)
       /\ fs_last' = CreateLast("create", path, size, r)
       /\ fs_tree' = IF r.ok THEN Append(fs_tree, TreeItem(path, FALSE))
                     ELSE fs_tree
       /\ fs_ops' = fs_ops + Changed(r)
  /\ UNCHANGED <<fs_formatted, cache_enables, shadow, last_read, created,
                 free_map0, fm_removed, file_data, inode_last, inode_ops,
                 fs_handles, notDir>>

\* The mkdir system call: filesys_create_dir (path).
FsMkdir(path) ==
  /\ FsRunning
  /\ \E r \in {filesys_create_dir(FsState, path)} :
       /\ \E g \in {r.g} : SetFs(g)
       /\ fs_last' = CreateLast("mkdir", path, 0, r)
       /\ fs_tree' = IF r.ok THEN Append(fs_tree, TreeItem(path, TRUE))
                     ELSE fs_tree
       /\ fs_ops' = fs_ops + Changed(r)
  /\ UNCHANGED <<fs_formatted, cache_enables, shadow, last_read, created,
                 free_map0, fm_removed, file_data, inode_last, inode_ops,
                 fs_handles, notDir>>

\* fs_tree after a removal of PATH that returned OK: the item leaves the
\* history and its directory has a hole; a refusal is remembered.
TreeRemove(path, ok) ==
  Let(TreeIdx(path),
      LAMBDA i :
        IF i = 0 THEN fs_tree
        ELSE IF ~ok THEN [fs_tree EXCEPT ![i].refused = TRUE]
        ELSE Let(TreeIdx(path_split_names(path).parent),
                 LAMBDA p :
                   [k \in 1..(Len(fs_tree) - 1) |->
                      IF k = p THEN [fs_tree[k] EXCEPT !.holes = TRUE]
                      ELSE IF k < i THEN fs_tree[k] ELSE fs_tree[k + 1]]))

\* The remove system call: filesys_remove (path).
FsRemove(path) ==
  /\ FsRunning
  /\ \E r \in {filesys_remove(FsState, path)} :
       /\ \E g \in {r.g} : SetFs(g)
       /\ \E t \in {PathNow(CacheState, path)} :
            fs_last' =
              [NoFsOp EXCEPT
                 !.op = "remove", !.path = path, !.ret = r.ok,
                 !.existed = t # NullInode,
                 !.was_dir = IsDirNow(CacheState, t),
                 !.nonempty =
                   /\ IsDirNow(CacheState, t)
                   /\ NamesFrom(EntriesNow(CacheState, t), 1) # <<>>,
                 !.entry_kept = t # NullInode /\ PathNow(r.g.c, path) = t,
                 !.marked = \E i \in 1..Len(r.g.open) :
                              r.g.open[i].sector = t /\ r.g.open[i].removed,
                 !.refused = TreeIdx(path) # 0
                             /\ fs_tree[TreeIdx(path)].refused,
                 !.fm_same = r.g.fm = free_map,
                 !.uaf = r.g.uaf]
       /\ fs_tree' = TreeRemove(path, r.ok)
       /\ fs_ops' = fs_ops + Changed(r)
  /\ UNCHANGED <<fs_formatted, cache_enables, shadow, last_read, created,
                 free_map0, fm_removed, file_data, inode_last, inode_ops,
                 fs_handles, notDir>>

\* A directory is opened (filesys_open_dir), read with dir_readdir until
\* that returns false, and closed.
ListDir(path) ==
  /\ FsRunning
  /\ \E o \in {filesys_open_dir_length(FsState, path)} :
       /\ o.dir # NullInode
       /\ \E r \in {ReaddirAll(o.g, o.dir, 0, <<>>)} :
            /\ \E g \in {dir_close(r.g, o.dir)} : SetFs(g)
            /\ fs_last' =
                 [NoFsOp EXCEPT
                    !.op = "list", !.path = path, !.ret = TRUE,
                    !.names = r.names,
                    !.slots = NamesFrom(EntriesNow(CacheState, o.dir), 1),
                    !.added = AddedFrom(path, 1),
                    !.holes = TreeIdx(path) # 0
                              /\ fs_tree[TreeIdx(path)].holes]
  /\ UNCHANGED <<fs_ops, fs_formatted, fs_tree, cache_enables, shadow, last_read,
                 created, free_map0, fm_removed, file_data, inode_last,
                 inode_ops, fs_handles, notDir>>

\* ---- Handles: open, close ----

\* Calls of filesys.h in one run of the specification with handles.
MaxOpenOps == 5

\* Handles a caller holds at one time.
MaxHandles == 2

\* The names opened: "/", "/1", "/2", "/1/1" and "/1/2".
OpenPaths == {<<>>, <<1>>, <<2>>, <<1, 1>>, <<1, 2>>}

OpenRunning == FsRunning /\ fs_ops < MaxOpenOps

\* What a call that gives a handle or takes one leaves behind.
HandleCall(op, path, g, handle) ==
  /\ SetFs(g)
  /\ fs_handles' = IF handle = NullInode THEN fs_handles
                   ELSE Append(fs_handles, handle)
  /\ fs_last' = [NoFsOp EXCEPT !.op = op, !.path = path,
                               !.ret = handle # NullInode,
                               !.existed = PathNow(CacheState, path) # NullInode,
                               !.uaf = g.uaf]
  /\ fs_ops' = fs_ops + 1
  /\ UNCHANGED <<fs_formatted, fs_tree, cache_enables, shadow, last_read,
                 created, free_map0, fm_removed, file_data, inode_last,
                 inode_ops, notDir>>

\* The open system call: filesys_open (path).
FsOpen(path) ==
  /\ OpenRunning
  /\ Len(fs_handles) < MaxHandles
  /\ \E r \in {filesys_open(FsState, path)} :
       HandleCall("open", path, r.g, r.file)

\* filesys_open ("").
FsOpenEmpty ==
  /\ OpenRunning
  /\ \E r \in {filesys_open_empty(FsState)} :
       HandleCall("open_empty", <<>>, r.g, r.file)

\* The chdir and readdir system calls start with filesys_open_dir (path).
FsOpenDir(path) ==
  /\ OpenRunning
  /\ Len(fs_handles) < MaxHandles
  /\ \E r \in {filesys_open_dir(FsState, path)} :
       HandleCall("open_dir", path, r.g, r.dir)

\* file_close or dir_close of the handle at place i.
FsClose(i) ==
  /\ OpenRunning
  /\ i \in 1..Len(fs_handles)
  /\ \E g \in {inode_close(FsState, fs_handles[i])} : SetFs(g)
  /\ fs_handles' = [k \in 1..(Len(fs_handles) - 1) |->
                      IF k < i THEN fs_handles[k] ELSE fs_handles[k + 1]]
  /\ fs_last' = [NoFsOp EXCEPT !.op = "close", !.ret = TRUE]
  /\ fs_ops' = fs_ops + 1
  /\ UNCHANGED <<fs_formatted, fs_tree, cache_enables, shadow, last_read,
                 created, free_map0, fm_removed, file_data, inode_last,
                 inode_ops, notDir>>

NextOpen ==
  \/ FilesysInit
  \/ OpenRunning /\ \E path \in FilePaths, size \in CreateSizes :
                       FsCreate(path, size)
  \/ OpenRunning /\ \E path \in NewDirPaths : FsMkdir(path)
  \/ OpenRunning /\ \E path \in Paths : FsRemove(path)
  \/ \E path \in OpenPaths : FsOpen(path)
  \/ FsOpenEmpty
  \/ \E path \in OpenPaths : FsOpenDir(path)
  \/ \E i \in 1..MaxHandles : FsClose(i)

\* ---- Paths that end in "." and ".." ----

\* Calls of filesys.h in one run of the specification with "." and "..".
MaxDotOps == 5

\* Files are made at "/1", "/2" and "/1/1", directories at "/1", "/1/1"
\* and "/1/."; these and "/.", "/..", "/1/." and "/1/.." are removed.
DotFilePaths == {<<1>>, <<2>>, <<1, 1>>}
DotDirPaths == {<<1>>, <<1, 1>>, <<1, Dot>>}
DotPaths == DotFilePaths \cup DotDirPaths
             \cup {<<Dot>>, <<DotDot>>, <<1, DotDot>>}

DotRunning == FsRunning /\ fs_ops < MaxDotOps

NextDots ==
  \/ FilesysInit
  \/ DotRunning /\ \E path \in DotFilePaths, size \in CreateSizes :
                      FsCreate(path, size)
  \/ DotRunning /\ \E path \in DotDirPaths : FsMkdir(path)
  \/ DotRunning /\ \E path \in DotPaths : FsRemove(path)

\* The kernel switches the cache on while it boots, before the file system
\* is made, or leaves it off.
FsCacheEnable == ~fs_formatted /\ CacheEnable

NextDir ==
  \/ FilesysInit
  \/ \E path \in FilePaths, size \in CreateSizes : FsCreate(path, size)
  \/ \E path \in NewDirPaths : FsMkdir(path)
  \/ \E path \in Paths : FsRemove(path)
  \/ \E path \in DirPaths : ListDir(path)
  \/ FsCacheEnable

-----------------------------------------------------------------------------
(* One call of inode_disk_grow_length_direct, filesys/inode.c, on every    *)
(* free map and direct inode of a small device.                            *)

\* Sectors of the device of the call: the free map, the root directory and
\* three more.
GrowSectors == 5

\* The sectors a file can have.
GrowData == 2..(GrowSectors - 1)

\* The direct inodes of LENGTH bytes whose sectors are in the set USED.
GrowInodes(length, used) ==
  {[length |-> length, depth |-> 0, is_dir |-> 0, blocks |-> b,
    magic |-> INODE_MAGIC] :
     b \in {x \in [1..INODE_BLOCK_COUNT -> used \cup {0}] :
              /\ \A i \in 1..INODE_BLOCK_COUNT :
                   (x[i] # 0) = (i <= bytes_to_sectors(length))
              /\ \A i, j \in 1..INODE_BLOCK_COUNT :
                   (i # j /\ x[i] # 0) => x[i] # x[j]}}

\* A free map, a direct inode whose sectors are allocated in it, and the
\* cache on or off.
GrowInputs ==
  UNION {[stage : {"input"}, fm : {used \cup {0, ROOT_DIR_SECTOR}},
          d : GrowInodes(length, used), en : BOOLEAN] :
         used \in SUBSET GrowData, length \in 0..DirectMax}

\* The sectors blocks[from] .. blocks[to - 1] of d read as zeros, one
\* filesys_block_read after the other.
RECURSIVE ReadZeros(_, _, _, _)
ReadZeros(f, d, from, to) ==
  IF from >= to THEN TRUE
  ELSE Let(fs_read(f, Block(d, from)),
           LAMBDA r : r.buf = Fill(0) /\ ReadZeros(r.f, d, from + 1, to))

\* inode_disk_grow_length_direct (d, size, zero) on the input of drawn.
GrowDirect(size, zero) ==
  /\ drawn.stage = "input"
  /\ \E r \in {inode_disk_grow_length_direct(
                  [FsState EXCEPT !.fm = drawn.fm, !.c.en = drawn.en],
                  drawn.d, size, zero)} :
       drawn' = [stage |-> "done", fm |-> drawn.fm, d |-> drawn.d,
                 en |-> drawn.en, size |-> size, zero |-> zero,
                 ok |-> r.ok, fm_out |-> r.f.fm, d_out |-> r.d,
                 panic |-> Stopped(r.f),
                 zeros |-> ReadZeros(r.f, r.d, bytes_to_sectors(drawn.d.length),
                                     bytes_to_sectors(size)),
                 zeros_each |->
                   \A i \in bytes_to_sectors(drawn.d.length)
                              ..(bytes_to_sectors(size) - 1) :
                     fs_read(r.f, Block(r.d, i)).buf = Fill(0),
                 held |-> [s \in 0..(GrowSectors - 1) |->
                             SectorNow(r.f.c, s)]]
  /\ UNCHANGED notDrawn

NextGrow == \E size \in 0..(DirectMax + 1), zero \in BOOLEAN :
              GrowDirect(size, zero)

-----------------------------------------------------------------------------
(* The page-fault handler step by step.  The kernel is preempted by the    *)
(* timer interrupt and a thread sleeps in block_read, block_write,         *)
(* file_read and file_write, so the handlers of two processes and the user *)
(* code of the processes interleave between the calls of frame.c, page.c   *)
(* and swap.c: each process has one thread, which is in user mode, at a     *)
(* place inside supp_handle_page_fault, or gone.                           *)

\* Calls and user accesses of one run of the step-by-step specification.
MaxEvictOps == 6

\* A thread in user mode.
NoThread == [pc |-> "user", e |-> <<0, 0>>, victim |-> <<0, 0>>, kpage |-> 0,
             index |-> 0, sector |-> 0]

NoEvh == [unmapped |-> [e \in Entries |-> <<>>], restored |-> <<>>,
          was |-> <<>>, killed |-> "none", uaf |-> FALSE, failed |-> "none",
          unfit |-> FALSE, stale |-> FALSE]

\* The history with the function whose assertion failed, if m1 is the
\* panic it ended in.
Failed(h, m1, name) ==
  IF m1.panic /\ h.failed = "none" THEN [h EXCEPT !.failed = name] ELSE h

\* page.c:478-503 of supp_load_file: file_seek and file_read into the page
\* frame_allocate_swap set, then the memset of the rest.
supp_load_file_read(m, e) ==
  Let(m.supp[e], LAMBDA entry :
    Let(Max(0, Min(entry.read_bytes, Len(m.file) - entry.ofs)),
        LAMBDA bytes_read :
      IF m.panic \/ entry.kpage = 0 THEN VmPanic(m)
      ELSE IF bytes_read # entry.read_bytes THEN frame_free(m, e)
      ELSE [m EXCEPT !.fd[entry.kpage] =
              [i \in 1..PGSIZE |->
                 IF i <= entry.read_bytes THEN m.file[entry.ofs + i]
                 ELSE IF i <= entry.read_bytes + entry.zero_bytes THEN 0
                 ELSE @[i]]]))

\* page.c:509-517 of supp_load_file
supp_load_file_install(m, e) ==
  Let(frame_install(m, e), LAMBDA r :
    IF ~r.ok THEN [m |-> frame_free(r.m, e), ok |-> FALSE]
    ELSE [m |-> supp_set_state(r.m, e, "LOADED"), ok |-> TRUE])

EvictRunning == ~vm_panic /\ ~evh.uaf

InUser(p) == EvictRunning /\ thr[p].pc = "user" /\ vm_ops < MaxEvictOps

\* supp_insert_stack (upage, true, true) by process p.
EvInsertStack(p, u) ==
  /\ InUser(p)
  /\ supp[<<p, u>>].state = "NONE"
  /\ \E r \in {supp_insert_stack(VmState, <<p, u>>, TRUE, TRUE)} :
       SetVm(r.m)
  /\ vm_ops' = vm_ops + 1
  /\ UNCHANGED <<mmap_table, fault, vm_seen, mview, vm_last, thr, evh>>
  /\ UNCHANGED notEvict

\* The mmap system call of process p at page u: mmap_file_create.
EvMmap(p, u) ==
  /\ InUser(p)
  /\ ~mmap_table.open
  /\ \E r \in {mmap_file_create(VmState, p, u)} :
       /\ r.ok
       /\ SetVm(r.m)
       /\ mmap_table' = r.mmap_file
  /\ vm_ops' = vm_ops + 1
  /\ UNCHANGED <<fault, vm_seen, mview, vm_last, thr, evh>>
  /\ UNCHANGED notEvict

\* Process p reads from its page u, which is mapped.
EvLoad(p, u) ==
  /\ InUser(p)
  /\ pagedir[<<p, u>>].present
  /\ ~pagedir[<<p, u>>].accessed
  /\ pagedir' = [pagedir EXCEPT ![<<p, u>>].accessed = TRUE]
  /\ vm_ops' = vm_ops + 1
  /\ UNCHANGED <<supp, frame_table, frame_data, palloc_used, swap_bitmap,
                 swap_block, mfile, vm_panic, mmap_table, fault, vm_seen,
                 mview, vm_last, thr, evh>>
  /\ UNCHANGED notEvict

\* Process p changes the byte at offset i of its page u, which is mapped
\* writable.
EvStore(p, u, i) ==
  /\ InUser(p)
  /\ pagedir[<<p, u>>].present
  /\ pagedir[<<p, u>>].writable
  /\ frame_data' = [frame_data EXCEPT ![pagedir[<<p, u>>].kpage][i] =
                                        1 + (@ % MaxByte)]
  /\ pagedir' = [pagedir EXCEPT ![<<p, u>>].accessed = TRUE,
                                ![<<p, u>>].dirty = TRUE]
  /\ vm_ops' = vm_ops + 1
  /\ UNCHANGED <<supp, frame_table, palloc_used, swap_bitmap, swap_block,
                 mfile, vm_panic, mmap_table, fault, vm_seen, mview, vm_last,
                 thr, evh>>
  /\ UNCHANGED notEvict

\* Process p touches its page u, which is not mapped: the page fault
\* enters supp_handle_page_fault (page.c:242-279), which finds the entry
\* and goes on to supp_load_file or supp_unswap, or returns false, and the
\* process is killed.
EvFault(p, u) ==
  /\ InUser(p)
  /\ supp[<<p, u>>].state # "NONE"
  /\ ~pagedir[<<p, u>>].present
  /\ \E case \in {FaultCase(VmState, <<p, u>>)} :
       IF case \in {"swapped", "not_loaded_file"}
       THEN /\ thr' = [thr EXCEPT ![p] = [NoThread EXCEPT
                                             !.pc = "alloc", !.e = <<p, u>>]]
            /\ UNCHANGED evh
       ELSE /\ thr' = [thr EXCEPT ![p].pc = "killed"]
            /\ evh' = [evh EXCEPT !.killed = case]
  /\ vm_ops' = vm_ops + 1
  /\ UNCHANGED <<supp, pagedir, frame_table, frame_data, palloc_used,
                 swap_bitmap, swap_block, mfile, vm_panic, mmap_table, fault,
                 vm_seen, mview, vm_last>>
  /\ UNCHANGED notEvict

\* Process p exits, or is killed by the fault: supp_remove_all (pd).
EvExit(p) ==
  /\ EvictRunning
  /\ \/ InUser(p) /\ \E u \in UPages : supp[<<p, u>>].state # "NONE"
     \/ thr[p].pc = "killed"
  /\ \E m1 \in {supp_remove_all(VmState, p)} :
       /\ SetVm(m1)
       /\ evh' = Failed(evh, m1, "supp_remove_all")
  /\ mmap_table' = IF mmap_table.owner = p THEN NoMmap ELSE mmap_table
  /\ thr' = [thr EXCEPT ![p].pc = "exited"]
  /\ UNCHANGED <<fault, vm_seen, mview, vm_last, vm_ops>>
  /\ UNCHANGED notEvict

\* frame_allocate_swap (frame.c:178-193) while a page of the user pool is
\* free: frame_allocate sets kpage in the entry.
EvAllocate(p) ==
  /\ EvictRunning
  /\ thr[p].pc = "alloc"
  /\ palloc_used # Frames
  /\ \E r \in {frame_allocate(VmState, thr[p].e, FALSE)} :
       /\ SetVm(r.m)
       /\ evh' = Failed(evh, r.m, "frame_allocate")
  /\ thr' = [thr EXCEPT ![p].pc = IF supp[thr[p].e].state = "SWAPPED"
                                  THEN "install" ELSE "file_read"]
  /\ UNCHANGED <<mmap_table, fault, vm_seen, mview, vm_last, vm_ops>>
  /\ UNCHANGED notEvict

\* frame.c:143-145: what frame_evict asserts of the victim it was given,
\* and does not check.
Chosen(victim) ==
  [evh EXCEPT !.unfit = @ \/ supp[victim].state # "LOADED"
                          \/ supp[victim].pinned]

\* frame_uninstall or frame_free is called with an entry that is not LOADED.
OnEntry(h, e) == [h EXCEPT !.stale = @ \/ supp[e].state # "LOADED"]

\* frame_allocate_swap while the pool is full: frame_evict chooses the
\* victim (frame.c:137-145) and calls supp_unload, up to the write-back
\* (page.c:124-132), or supp_swap, up to the first block_write of
\* swap_install (page.c:421-429, swap.c:74-85).
EvEvictBegin(p) ==
  /\ EvictRunning
  /\ thr[p].pc = "alloc"
  /\ palloc_used = Frames
  /\ \E sc \in {frame_choose_victim_second_chance(VmState)} :
       IF sc.m.panic
       THEN /\ SetVm(sc.m)
            /\ evh' = Failed(evh, sc.m, "frame_evict")
            /\ UNCHANGED thr
       ELSE IF supp[sc.victim].type = "MMAP"
       THEN /\ \E m1 \in {supp_unload_write(sc.m, sc.victim)} :
                 /\ SetVm(m1)
                 /\ evh' = Failed(Chosen(sc.victim), m1, "supp_unload")
            /\ thr' = [thr EXCEPT ![p].pc = "uninstall",
                                  ![p].victim = sc.victim,
                                  ![p].kpage = supp[sc.victim].kpage]
       ELSE /\ \E r \in {IF supp[sc.victim].kpage = 0
                         THEN [m |-> VmPanic(sc.m), index |-> 0]
                         ELSE swap_scan_and_flip(sc.m)} :
                 /\ SetVm(r.m)
                 /\ evh' = Failed(Chosen(sc.victim), r.m, "supp_swap")
                 /\ thr' = [thr EXCEPT ![p].pc = "swap_write",
                                       ![p].victim = sc.victim,
                                       ![p].kpage = supp[sc.victim].kpage,
                                       ![p].index = r.index,
                                       ![p].sector = 0]
  /\ UNCHANGED <<mmap_table, fault, vm_seen, mview, vm_last, vm_ops>>
  /\ UNCHANGED notEvict

\* block_write_page (swap.c:46-57): the next sector of the page
\* swap_install was given goes to the swap slot.
EvSwapWrite(p) ==
  /\ EvictRunning
  /\ thr[p].pc = "swap_write"
  /\ SetVm(block_write_sector(VmState, thr[p].index, thr[p].sector,
                              frame_data[thr[p].kpage]))
  /\ thr' = [thr EXCEPT ![p].sector = @ + 1,
                        ![p].pc = IF thr[p].sector + 1 = PAGE_SECTOR_COUNT
                                  THEN "uninstall" ELSE @]
  /\ UNCHANGED <<mmap_table, fault, vm_seen, mview, vm_last, vm_ops, evh>>
  /\ UNCHANGED notEvict

\* The struct supp_entry of the victim was freed by its owner.
VictimFreed(p) == supp[thr[p].victim].state = "NONE"

\* frame_uninstall (victim) of supp_swap and supp_unload (page.c:430,
\* page.c:134): the mapping is removed.
EvUninstall(p) ==
  /\ EvictRunning
  /\ thr[p].pc = "uninstall"
  /\ IF VictimFreed(p)
     THEN /\ evh' = [evh EXCEPT !.uaf = TRUE]
          /\ UNCHANGED <<supp, pagedir, frame_table, frame_data, palloc_used,
                         swap_bitmap, swap_block, mfile, vm_panic, thr>>
     ELSE /\ \E m1 \in {frame_uninstall(VmState, thr[p].victim)} :
               /\ SetVm(m1)
               /\ evh' = [Failed(OnEntry(evh, thr[p].victim), m1,
                             "frame_uninstall") EXCEPT
                            !.unmapped[thr[p].victim] =
                               IF m1.panic THEN @
                               ELSE frame_data[supp[thr[p].victim].kpage]]
          /\ thr' = [thr EXCEPT ![p].pc = "free"]
  /\ UNCHANGED <<mmap_table, fault, vm_seen, mview, vm_last, vm_ops>>
  /\ UNCHANGED notEvict

\* frame_free (victim) of supp_swap and supp_unload (page.c:431,
\* page.c:135).
EvFree(p) ==
  /\ EvictRunning
  /\ thr[p].pc = "free"
  /\ IF VictimFreed(p)
     THEN /\ evh' = [evh EXCEPT !.uaf = TRUE]
          /\ UNCHANGED <<supp, pagedir, frame_table, frame_data, palloc_used,
                         swap_bitmap, swap_block, mfile, vm_panic, thr>>
     ELSE /\ \E m1 \in {frame_free(VmState, thr[p].victim)} :
               /\ SetVm(m1)
               /\ evh' = Failed(OnEntry(evh, thr[p].victim), m1,
                                "frame_free")
          /\ thr' = [thr EXCEPT ![p].pc = "state"]
  /\ UNCHANGED <<mmap_table, fault, vm_seen, mview, vm_last, vm_ops>>
  /\ UNCHANGED notEvict

\* supp_set_swap (victim, swap_index) of supp_swap (page.c:432) or
\* supp_set_state (victim, NOT_LOADED) of supp_unload (page.c:137);
\* frame_evict returns and frame_allocate_swap tries again.
EvSetState(p) ==
  /\ EvictRunning
  /\ thr[p].pc = "state"
  /\ IF VictimFreed(p)
     THEN /\ evh' = [evh EXCEPT !.uaf = TRUE]
          /\ UNCHANGED <<supp, pagedir, frame_table, frame_data, palloc_used,
                         swap_bitmap, swap_block, mfile, vm_panic, thr>>
     ELSE /\ \E m1 \in {IF supp[thr[p].victim].type = "MMAP"
                        THEN supp_set_state(VmState, thr[p].victim,
                                            "NOT_LOADED")
                        ELSE supp_set_swap(VmState, thr[p].victim,
                                           thr[p].index)} :
               /\ SetVm(m1)
               /\ evh' = Failed(evh, m1, "supp_set_state")
          /\ thr' = [thr EXCEPT ![p].pc = "alloc",
                                ![p].victim = <<0, 0>>, ![p].kpage = 0,
                                ![p].index = 0, ![p].sector = 0]
  /\ UNCHANGED <<mmap_table, fault, vm_seen, mview, vm_last, vm_ops>>
  /\ UNCHANGED notEvict

\* frame_install of supp_unswap (page.c:448-452); swap_uninstall, which
\* sleeps in block_read, comes next.
EvInstall(p) ==
  /\ EvictRunning
  /\ thr[p].pc = "install"
  /\ \E r \in {frame_install(VmState, thr[p].e)} :
       \E m1 \in {IF r.ok THEN r.m
                  ELSE VmPanic(frame_free(r.m, thr[p].e))} :
         /\ SetVm(m1)
         /\ evh' = Failed(evh, m1, "supp_unswap")
  /\ thr' = [thr EXCEPT ![p].pc = "unswap_read"]
  /\ UNCHANGED <<mmap_table, fault, vm_seen, mview, vm_last, vm_ops>>
  /\ UNCHANGED notEvict

\* swap_uninstall and supp_set_state (entry, LOADED) of supp_unswap
\* (page.c:454-455); the handler returns true.
EvUnswapRead(p) ==
  /\ EvictRunning
  /\ thr[p].pc = "unswap_read"
  /\ \E m1 \in {supp_set_state(
                  swap_uninstall(VmState, supp[thr[p].e].swap_index,
                                 supp[thr[p].e].kpage),
                  thr[p].e, "LOADED")} :
       /\ SetVm(m1)
       /\ evh' = [Failed(evh, m1, "supp_unswap") EXCEPT
                    !.restored = IF m1.panic THEN @
                                 ELSE <<m1.fd[supp[thr[p].e].kpage]>>,
                    !.was = IF m1.panic THEN @
                            ELSE <<evh.unmapped[thr[p].e]>>]
  /\ thr' = [thr EXCEPT ![p] = NoThread]
  /\ UNCHANGED <<mmap_table, fault, vm_seen, mview, vm_last, vm_ops>>
  /\ UNCHANGED notEvict

\* file_read of supp_load_file into the page (page.c:483-507), which
\* sleeps in the file system.
EvFileRead(p) ==
  /\ EvictRunning
  /\ thr[p].pc = "file_read"
  /\ \E m1 \in {supp_load_file_read(VmState, thr[p].e)} :
       /\ SetVm(m1)
       /\ evh' = Failed(evh, m1, "supp_load_file")
  /\ thr' = [thr EXCEPT ![p].pc = "file_install"]
  /\ UNCHANGED <<mmap_table, fault, vm_seen, mview, vm_last, vm_ops>>
  /\ UNCHANGED notEvict

\* frame_install and supp_set_state (entry, LOADED) of supp_load_file
\* (page.c:509-517); the handler returns.
EvFileInstall(p) ==
  /\ EvictRunning
  /\ thr[p].pc = "file_install"
  /\ \E r \in {supp_load_file_install(VmState, thr[p].e)} :
       /\ SetVm(r.m)
       /\ evh' = Failed(evh, r.m, "supp_load_file")
  /\ thr' = [thr EXCEPT ![p] = NoThread]
  /\ UNCHANGED <<mmap_table, fault, vm_seen, mview, vm_last, vm_ops>>
  /\ UNCHANGED notEvict

NextEvict ==
  \/ \E p \in Procs, u \in UPages : EvInsertStack(p, u)
  \/ \E p \in {MmapProc}, u \in {1} : EvMmap(p, u)
  \/ \E p \in Procs, u \in UPages : EvLoad(p, u)
  \/ \E p \in Procs, u \in UPages, i \in StoreOffsets : EvStore(p, u, i)
  \/ \E p \in Procs, u \in UPages : EvFault(p, u)
  \/ \E p \in Procs : EvExit(p)
  \/ \E p \in Procs : EvAllocate(p)
  \/ \E p \in Procs : EvEvictBegin(p)
  \/ \E p \in Procs : EvSwapWrite(p)
  \/ \E p \in Procs : EvUninstall(p)
  \/ \E p \in Procs : EvFree(p)
  \/ \E p \in Procs : EvSetState(p)
  \/ \E p \in Procs : EvInstall(p)
  \/ \E p \in Procs : EvUnswapRead(p)
  \/ \E p \in Procs : EvFileRead(p)
  \/ \E p \in Procs : EvFileInstall(p)

-----------------------------------------------------------------------------
(* path_split of filesys/path.c on a path given as its characters.        *)

\* path.h: the separator of path names.
PATH_SEPARATOR == "/"

\* The longest path split, and the characters of paths.
MaxPathLen == 6
PathChars == {PATH_SEPARATOR, "a", "b", "c"}

\* path.c:77-82, 86-91 and 95-105, the three while loops: ch walks towards
\* the start of the path while the character under it is (sep) or is not
\* (~sep) the separator; -1 when the loop returns at the first character.
RECURSIVE SkipBack(_, _, _)
SkipBack(path, ch, sep) ==
  IF (path[ch + 1] = PATH_SEPARATOR) # sep THEN ch
  ELSE IF ch = 0 THEN -1
  ELSE SkipBack(path, ch - 1, sep)

\* What path_split stores for a path it cannot split (path.c:64-67).
SplitDefault(path) ==
  [parent_length |-> 0, base_begin |-> 0, base_end |-> Len(path)]

\* A path_split that would take off one separator in front of the base name
\* and not the whole run.
path_split_one(path) ==
  IF Len(path) = 0 THEN SplitDefault(path)
  ELSE
    Let(SkipBack(path, Len(path) - 1, TRUE),
        LAMBDA c1 :
          IF c1 = -1 THEN SplitDefault(path)
          ELSE
            Let(SkipBack(path, c1, FALSE),
                LAMBDA c2 :
                  IF c2 = -1
                    THEN [SplitDefault(path) EXCEPT !.base_end = c1 + 1]
                    ELSE [parent_length |-> IF c2 = 0 THEN 1 ELSE c2,
                          base_begin |-> c2 + 1, base_end |-> c1 + 1]))

\* path.c:56-107.  base_begin and base_end are offsets into the path.
path_split(path) ==
  IF Len(path) = 0 THEN SplitDefault(path)
  ELSE
    Let(SkipBack(path, Len(path) - 1, TRUE),
        LAMBDA c1 :
          IF c1 = -1 THEN SplitDefault(path)
          ELSE
            Let(SkipBack(path, c1, FALSE),
                LAMBDA c2 :
                  IF c2 = -1
                    THEN [SplitDefault(path) EXCEPT !.base_end = c1 + 1]
                  ELSE
                    Let(SkipBack(path, c2, TRUE),
                        LAMBDA c3 :
                          [parent_length |-> IF c3 = -1 THEN 1 ELSE c3 + 1,
                           base_begin |-> c2 + 1, base_end |-> c1 + 1])))

NoSplit == [stage |-> "none", path |-> <<>>, parent_length |-> 0,
            base_begin |-> 0, base_end |-> 0]

\* The paths of 1 to MaxPathLen characters.
SplitInputs ==
  UNION {[stage : {"input"}, path : [1..n -> PathChars], parent_length : {0},
          base_begin : {0}, base_end : {0}] : n \in 1..MaxPathLen}

\* path_split (path, &parent_length, &base_begin, &base_end)
PathSplit ==
  /\ split.stage = "input"
  /\ \E r \in {path_split(split.path)} :
       split' = [stage |-> "done", path |-> split.path,
                 parent_length |-> r.parent_length,
                 base_begin |-> r.base_begin, base_end |-> r.base_end]
  /\ UNCHANGED notSplit

NextPath == PathSplit

-----------------------------------------------------------------------------
(* Specifications.                                                         *)

\* The state after boot: filesys_cache_init has run on a device holding its
\* original content, the cache is off (cache.c:37) and nobody sleeps.
InitState(nsec) ==
  /\ filesys_cache = [i \in 1..FILESYS_CACHE_SIZE |-> EmptySlot]
  /\ evict_t = 0
  /\ cache_enabled = FALSE
  /\ sync_write = FALSE
  /\ cache_ticks = 0
  /\ fs_device = [s \in 0..(nsec - 1) |-> OrigData(s)]
  /\ cache_panic = FALSE
  /\ cache_enables = 0
  /\ shadow = [s \in 0..(nsec - 1) |-> OrigData(s)]
  /\ last_read = NoRead
  /\ ticks = 0
  /\ sleeping_threads = <<>>
  /\ sleeper = [t \in SleeperIds |-> IdleSleeper]
  /\ inserted = 0
  /\ signal_log = <<>>
  /\ timer_last = "call"
  /\ p_pc = "start"
  /\ p_blocked = FALSE
  /\ p_exit_code = -1
  /\ exec_ret = <<>>
  /\ wait_ret = <<>>
  /\ c_pc = "none"
  /\ c_has_parent = FALSE
  /\ c_status = <<>>
  /\ c_closed = FALSE
  /\ load_signalled = FALSE
  /\ child = NewProcess
  /\ in_children = FALSE
  /\ proc_uaf = FALSE
  /\ proc_panic = FALSE
  /\ free_map = {0, 1}
  /\ open_inodes = <<>>
  /\ inode_panic = FALSE
  /\ created = <<>>
  /\ free_map0 = <<>>
  /\ fm_removed = <<>>
  /\ file_data = <<>>
  /\ inode_last = NoInodeOp
  /\ inode_ops = 0
  /\ supp = [e \in Entries |-> NoEntry]
  /\ pagedir = [e \in Entries |-> NoPte]
  /\ frame_table = <<>>
  /\ frame_data = [k \in Frames |-> ZeroPage]
  /\ palloc_used = {}
  /\ swap_bitmap = [s \in SwapSlots |-> FALSE]
  /\ swap_block = [s \in SwapSectors |-> Fill(0)]
  /\ mfile = Pattern(0, VmFileLen)
  /\ mmap_table = NoMmap
  /\ vm_panic = FALSE
  /\ fault = NoFault
  /\ vm_seen = [e \in Entries |-> {}]
  /\ mview = Pattern(0, VmFileLen)
  /\ vm_last = NoVmOp
  /\ vm_ops = 0
  /\ fs_formatted = FALSE
  /\ fs_tree = <<>>
  /\ fs_last = NoFsOp
  /\ fs_ops = 0
  /\ fs_handles = <<>>
  /\ thr = [p \in Procs |-> NoThread]
  /\ evh = NoEvh
  /\ cw = NoRace

Init == InitState(DevSectors) /\ scan = NoScan /\ split = NoSplit
  /\ drawn = NoDrawn

\* The same boot on the larger device of the inode specification.
InitInode == InitState(InodeSectors) /\ scan = NoScan /\ split = NoSplit
  /\ drawn = NoDrawn

\* The boot with a frame list for one victim selection.
InitScan == InitState(DevSectors) /\ scan \in ScanInputs /\ split = NoSplit
  /\ drawn = NoDrawn

SpecCache == Init /\ [][NextCache]_vars

\* The boot with a cache for one call.
InitDrawn ==
  InitState(DevSectors) /\ scan = NoScan /\ split = NoSplit
  /\ drawn \in DrawnInputs

\* Faults on pages of a file, with every outcome of file_read and
\* pagedir_set_page.
NextLoad ==
  \/ \E p \in Procs, u \in UPages, in \in StackInputs :
       SuppInsertStack(p, u, in[1], in[2])
  \/ \E p \in {MmapProc}, u \in UPages : MmapCreate(p, u)
  \/ Munmap
  \/ \E p \in Procs, u \in UPages, missing \in 0..MaxMissing,
          success \in BOOLEAN :
       LoadFileFault(p, u, missing, success)

SpecLoad == Init /\ [][NextLoad]_vars

\* One call of cache.c on every cache of DrawnInputs.
SpecDrawn == InitDrawn /\ [][NextDrawn]_vars

\* Writers and filesys_cache_disable, thread by thread.
SpecRace == Init /\ [][NextRace]_vars

SpecTimer == Init /\ [][NextTimer]_vars

SpecProc == Init /\ [][NextProc]_vars

\* exec, wait and exit with a scheduler that lets every ready thread run.
SpecProcFair ==
  Init /\ [][NextProc]_vars /\ WF_vars(ParentSteps) /\ WF_vars(ChildSteps)

SpecInode == InitInode /\ [][NextInode]_vars

\* The boot with a free map and a direct inode for one call.
InitGrow ==
  InitState(GrowSectors) /\ scan = NoScan /\ split = NoSplit
  /\ drawn \in GrowInputs

\* One call of inode_disk_grow_length_direct on every input of GrowInputs.
SpecGrow == InitGrow /\ [][NextGrow]_vars

SpecVM == Init /\ [][NextVM]_vars

SpecScan == InitScan /\ [][NextScan]_vars

\* The handlers of the page fault step by step.
SpecEvict == Init /\ [][NextEvict]_vars

\* The boot with a path for one call of path_split.
InitPath ==
  InitState(DevSectors) /\ scan = NoScan /\ split \in SplitInputs
  /\ drawn = NoDrawn

SpecPath == InitPath /\ [][NextPath]_vars

\* The same boot on the device of the directory specification.
InitDir == InitState(DirSectors) /\ scan = NoScan /\ split = NoSplit
  /\ drawn = NoDrawn

SpecDir == InitDir /\ [][NextDir]_vars

\* The calls of filesys.h on paths that end in "." and "..".
SpecDots == InitDir /\ [][NextDots]_vars

\* The calls of filesys.h with the handles they return.
SpecOpen == InitDir /\ [][NextOpen]_vars

-----------------------------------------------------------------------------
(* Properties of the buffer cache.                                         *)

\* C1: with the cache enabled, filesys_block_read(s) returns exactly the
\* bytes of the most recent write to s, or the device's original content of
\* s, whatever evictions and read-ahead the calls have triggered.
C1_ReadReturnsLastWrite ==
  (cache_enabled /\ last_read.op = "read") => last_read.got = last_read.want

-----------------------------------------------------------------------------
(* Properties of the inode store.                                          *)

\* C2: writing B of length L at offset 0 to a newly created empty file
\* returns L and leaves the length at L, whatever depth L requires, and a
\* following read of L bytes at offset 0 returns exactly B.
C2_WriteThenReadRoundTrip ==
  /\ (inode_last.op = "write" /\ inode_last.fresh) =>
       /\ inode_last.ret = inode_last.size
       /\ \A i \in 1..Len(open_inodes) :
            open_inodes[i].data.length = inode_last.size
  /\ (inode_last.op = "read" /\ inode_last.fresh) =>
       inode_last.buf = file_data

\* C3: a removed inode that is still open keeps serving reads and writes and
\* none of its sectors is released; the last close releases all of them, so
\* that the free map is again what it was before the file was created.
C3_RemovedInodeFreedAtLastClose ==
  /\ \A i \in 1..Len(open_inodes) :
       open_inodes[i].removed =>
         /\ fm_removed[1] \subseteq free_map
         /\ inode_last.op = "write" => inode_last.ret = inode_last.size
         /\ inode_last.op = "read" =>
              inode_last.buf =
                SubSeq(file_data, 1, Min(inode_last.size, Len(file_data)))
  /\ (inode_last.op = "close" /\ inode_last.freed) =>
       free_map = free_map0[1]

-----------------------------------------------------------------------------
(* Properties of the sleep queue.                                          *)

\* C8: a thread that called timer_sleep(k), k >= 1, is signalled by the tick
\* handler no earlier than k and no later than k + 1 ticks after the call,
\* wherever the timer interrupts fall, also between the read of the tick
\* count and the insertion into the list.
C8_SignalledWithinKPlusOne ==
  \A t \in SleeperIds :
    sleeper[t].pc = "woken" =>
      /\ sleeper[t].signalled - sleeper[t].call >= sleeper[t].k
      /\ sleeper[t].signalled - sleeper[t].call <= sleeper[t].k + 1

\* C9: sleepers are signalled in non-decreasing order of wake time, sleepers
\* with the same wake time in the order of their insertion, and after a run
\* of the tick handler no sleeper with wake_time <= ticks is in the list.
C9_SignalledInWakeOrder ==
  /\ \A i, j \in 1..Len(signal_log) :
       i < j => sleeper[signal_log[i]].wake_time
                  <= sleeper[signal_log[j]].wake_time
  /\ \A i, j \in 1..Len(signal_log) :
       (i < j /\ sleeper[signal_log[i]].wake_time
                   = sleeper[signal_log[j]].wake_time)
         => sleeper[signal_log[i]].seq < sleeper[signal_log[j]].seq
  /\ timer_last = "tick" =>
       \A i \in 1..Len(sleeping_threads) :
         sleeper[sleeping_threads[i]].wake_time > ticks

-----------------------------------------------------------------------------
(* Properties of exec, wait and exit.                                      *)

\* The parent sleeps on a semaphore nobody will signal any more.
ParentBlockedForever == p_pc = "hung" \/ (p_blocked /\ c_pc = "dead")

\* C5: the first process_wait on the child does not return before the child
\* has recorded its exit code and entered process_exit, and it returns
\* exactly the status the child passed to exit.
C5_FirstWaitReturnsExitStatus ==
  Len(wait_ret) >= 1 => (c_pc \in ExitPcs /\ c_status = <<wait_ret[1]>>)

C7_ExecReturnsAfterLoad ==
  /\ exec_ret # <<>> =>
       /\ load_signalled
       /\ (exec_ret = <<PID_ERROR>>) <=> ~child.load_success
       /\ (exec_ret = <<ChildPid>>) <=> child.load_success
  /\ p_pc \in ExecPcs \cup {"ex_ret", "hung", "panic"} =>
       (~ParentBlockedForever /\ ~proc_uaf /\ ~proc_panic)

-----------------------------------------------------------------------------
(* Properties of the virtual memory.                                       *)

\* C4: when a page that is not a mapping was evicted by supp_swap and is
\* faulted back by supp_handle_page_fault -> supp_unswap, the frame holds
\* after the fault what the page held at its eviction (any content it held
\* from the start of supp_swap to the moment it was unmapped), the entry
\* is LOADED again and the swap slot it used is free again.
C4_SwapRoundTrip ==
  vm_last.op = "unswap" =>
    /\ vm_last.page \in vm_last.seen
    /\ vm_last.loaded
    /\ vm_last.slot_free

\* C10: bytes stored through a mapping are never lost: whenever no page of
\* the mapping is loaded (it was evicted, unmapped by mmap_file_destroy or
\* torn down with its process) the file holds every byte stored through
\* the mapping, and the length of the file never changes.
C10_MmapWritesReachFile ==
  ~vm_panic =>
    /\ Len(mfile) = VmFileLen
    /\ (\A e \in Entries :
          ~(supp[e].type = "MMAP" /\ supp[e].state = "LOADED"))
         => mfile = mview

\* C11: no supplemental entry has type Mmap and state Swapped; the victim
\* of an eviction ends NotLoaded when it is an Mmap page, and Swapped with
\* its swap slot in use when it is of any other type.
C11_NoMmapSwapped ==
  ~vm_panic =>
    /\ \A e \in Entries :
         ~(supp[e].type = "MMAP" /\ supp[e].state = "SWAPPED")
    /\ vm_last.victim # <<0, 0>> =>
         IF vm_last.vtype = "MMAP"
         THEN vm_last.vstate = "NOT_LOADED"
         ELSE vm_last.vstate = "SWAPPED" /\ vm_last.vslot

\* A fault has just evicted an Mmap page, which is NotLoaded again.
C11_Witness ==
  /\ ~vm_panic
  /\ vm_last.victim # <<0, 0>>
  /\ vm_last.vtype = "MMAP"
  /\ supp[vm_last.victim].state = "NOT_LOADED"

\* C12: supp_handle_page_fault returns false for the null page, a kernel
\* page, a page without entry, a Loaded entry and a NotLoaded entry that is
\* not of a file; it returns true only for a NotLoaded entry of a file or a
\* Swapped entry, and then the entry is Loaded and its frame is mapped in
\* the owner's page table with the entry's writability.
C12_PageFaultResult ==
  (vm_last.op \in {"fault", "unswap"} /\ ~vm_panic) =>
    /\ vm_last.case \in {"null", "kernel", "no_entry", "loaded",
                         "not_loaded_other"} => ~vm_last.ret
    /\ vm_last.ret =>
         /\ vm_last.case \in {"not_loaded_file", "swapped"}
         /\ supp[vm_last.e].state = "LOADED"
         /\ supp[vm_last.e].kpage \in Frames
         /\ pagedir[vm_last.e].present
         /\ pagedir[vm_last.e].kpage = supp[vm_last.e].kpage
         /\ pagedir[vm_last.e].writable = supp[vm_last.e].writable

\* A fault on a Swapped read-only entry has returned true after an
\* eviction.
C12_Witness ==
  /\ ~vm_panic
  /\ vm_last.op = "unswap"
  /\ vm_last.ret
  /\ vm_last.victim # <<0, 0>>
  /\ ~supp[vm_last.e].writable

\* How often frame f is in the trace of the selection.
Examined(f) == Cardinality({i \in 1..Len(scan.trace) : scan.trace[i].f = f})

\* The list ft after its first n frames went to the tail one by one.
RECURSIVE Rotated(_, _)
Rotated(ft, n) == IF n = 0 THEN ft ELSE Rotated(Append(Tail(ft), Head(ft)), n - 1)

\* C20: one selection over a frame list with an unpinned frame ends, looks
\* at no frame more than twice and returns an unpinned frame whose accessed
\* bit was clear when it was looked at; a frame found accessed has the bit
\* cleared and goes to the tail instead of being chosen.
C20_SecondChance ==
  (scan.stage = "done" /\ Range(scan.ft) \ scan.pinned # {}) =>
    /\ ~scan.panic
    /\ \A f \in Range(scan.ft) : Examined(f) <= 2
    /\ scan.victim \in Range(scan.ft) \ scan.pinned
    /\ scan.trace[Len(scan.trace)] =
         [f |-> scan.victim, pinned |-> FALSE, accessed |-> FALSE]
    /\ \A i \in 1..(Len(scan.trace) - 1) :
         \/ scan.trace[i].pinned
         \/ /\ scan.trace[i].accessed
            /\ scan.trace[i].f \notin scan.accessed_out
    /\ scan.ft_out = Rotated(scan.ft, Len(scan.trace))

\* A selection that met a pinned frame twice and gave an accessed frame
\* its second chance before choosing it.
C20_Witness ==
  /\ scan.stage = "done"
  /\ ~scan.panic
  /\ scan.victim \in scan.accessed
  /\ \E f \in scan.pinned : Examined(f) = 2
  /\ Examined(scan.victim) = 2

\* C14: one byte written at an offset O > 0 of an empty file makes the
\* length O + 1, and the read of the O bytes in front of it returns zeros,
\* whatever the sectors held before they were allocated.
C14_HoleReadsZero ==
  /\ (inode_last.op = "write_byte" /\ inode_last.fresh) =>
       /\ ~inode_panic
       /\ inode_last.ret = 1
       /\ inode_last.length = inode_last.offset + 1
  /\ (inode_last.op = "read" /\ inode_last.hole) =>
       /\ ~inode_panic
       /\ inode_last.buf = [k \in 1..inode_last.size |-> 0]

\* The bytes in front of a byte written beyond a direct inode were read.
C14_Witness ==
  /\ inode_last.op = "read"
  /\ inode_last.hole
  /\ inode_last.size = DirectMax + 1
  /\ inode_last.depth = 1
  /\ ~inode_panic

\* C15: inode_read_at leaves the length, the block tree and the free map
\* alone and returns min(size, max(0, length - offset)) bytes at every
\* depth; at or beyond the end of the file that is 0 bytes, without a
\* panic.
C15_ReadPastEnd ==
  inode_last.op = "read" =>
    /\ ~inode_panic
    /\ inode_last.same
    /\ inode_last.ret =
         Min(inode_last.size, Max(0, inode_last.length - inode_last.offset))

\* C16: when filesys_sync returns with the cache enabled no slot is dirty
\* and, for every sector, a read through the cache returns the bytes the
\* raw device holds.
C16_SyncedCacheIsDevice ==
  (last_read.op = "sync" /\ cache_enabled /\ ~cache_panic) =>
    /\ \A i \in 1..FILESYS_CACHE_SIZE : ~filesys_cache[i].dirty
    /\ \A s \in Sectors :
         filesys_block_read(CacheState, s).buf = fs_device[s]


-----------------------------------------------------------------------------
(* Properties of the directories.                                          *)

C17_CreateExisting ==
  (fs_last.op = "create" /\ fs_last.existed) =>
    /\ ~inode_panic /\ ~cache_panic
    /\ ~fs_last.ret
    /\ fs_last.kept
    /\ fs_last.fm_same

\* The directory at fs_tree[i] holds "." for its own sector and ".." for
\* the sector of its parent, both in use.
HasDotEntries(i) ==
  \E own \in {PathNow(CacheState, fs_tree[i].path)} :
    \E parent \in {IF fs_tree[i].path = <<>> THEN ROOT_DIR_SECTOR
                    ELSE PathNow(CacheState,
                                 path_split_names(fs_tree[i].path).parent)} :
      \E es \in {IF own = NullInode THEN <<>>
                  ELSE EntriesNow(CacheState, own)} :
        /\ own # NullInode
        /\ \E k \in SlotsIn(es, Dot) : es[k][1] = own
        /\ \E k \in SlotsIn(es, DotDot) : es[k][1] = parent

\* C18: every directory, the root that formatting made and the ones
\* filesys_create_dir made, holds "." for itself and ".." for its parent
\* (the root for the root).
C18_DotEntries ==
  (fs_formatted /\ ~inode_panic /\ ~cache_panic) =>
    \A i \in 1..Len(fs_tree) : fs_tree[i].is_dir => HasDotEntries(i)

\* C19, as stated: dir_readdir on a fresh handle yields the names in use,
\* "." and ".." left out, in the order in which they were added.
C19_InsertionOrder ==
  fs_last.op = "list" =>
    ~inode_panic /\ ~cache_panic /\ fs_last.names = fs_last.added

\* C19, amended: dir_readdir on a fresh handle yields the names in use, "."
\* and ".." left out, each once, in the order of their slots; that is the
\* order in which they were added as long as nothing was removed from the
\* directory.
C19_SlotOrder ==
  fs_last.op = "list" =>
    /\ ~inode_panic /\ ~cache_panic
    /\ fs_last.names = fs_last.slots
    /\ Range(fs_last.names) = Range(fs_last.added)
    /\ Len(fs_last.names) = Len(fs_last.added)
    /\ ~fs_last.holes => fs_last.names = fs_last.added

\* The root lists "1" before "2" although "2" was added first: "1" took
\* the slot a removal had left.
C19_Witness ==
  /\ fs_last.op = "list" /\ fs_last.path = <<>> /\ fs_last.holes
  /\ fs_last.names = <<1, 2>> /\ fs_last.added = <<2, 1>>
  /\ ~inode_panic /\ ~cache_panic


-----------------------------------------------------------------------------
(* Properties of path_split.                                               *)

\* The characters first + 1 .. last of a path.
Part(path, first, last) == SubSeq(path, first + 1, last)

IsSeparators(str) == \A i \in 1..Len(str) : str[i] = PATH_SEPARATOR

Chars(str) == [i \in 1..Len(str) |-> str[i]]

\* C21: for a non-empty path, path_split gives as base the last non-empty
\* component (no separator in it, the trailing separators left out) and as
\* parent the prefix that ends before the run of separators in front of the
\* base, "/" when that prefix is the root; a path of separators only has
\* parent length 0 and itself as base.  "/a/b/c" gives ("/a/b", "c"),
\* "a///b/" gives ("a", "b"), "/a" gives ("/", "a"), "a" gives ("", "a").
C21_PathSplit ==
  split.stage = "done" =>
    LET p == split.path
        base == Part(p, split.base_begin, split.base_end)
        front == Part(p, 0, split.base_begin)
        parent == Part(p, 0, split.parent_length)
    IN /\ IsSeparators(p) => split.parent_length = 0 /\ base = p
       /\ ~IsSeparators(p) =>
            /\ base # <<>>
            /\ \A i \in 1..Len(base) : base[i] # PATH_SEPARATOR
            /\ IsSeparators(Part(p, split.base_end, Len(p)))
            /\ front # <<>> => front[Len(front)] = PATH_SEPARATOR
            /\ front = <<>> => parent = <<>>
            /\ (front # <<>> /\ IsSeparators(front)) =>
                 parent = <<PATH_SEPARATOR>>
            /\ ~IsSeparators(front) =>
                 /\ parent[Len(parent)] # PATH_SEPARATOR
                 /\ IsSeparators(Part(p, split.parent_length, Len(front)))
       /\ p = Chars(<<"/", "a", "/", "b", "/", "c">>) =>
            parent = Chars(<<"/", "a", "/", "b">>) /\ base = <<"c">>
       /\ p = Chars(<<"a", "/", "/", "/", "b", "/">>) =>
            parent = <<"a">> /\ base = <<"b">>
       /\ p = Chars(<<"/", "a">>) => parent = <<"/">> /\ base = <<"a">>
       /\ p = <<"a">> => parent = <<>> /\ base = <<"a">>

\* "a///b/" was split into "a" and "b".
C21_Witness ==
  /\ split.stage = "done"
  /\ split.path = Chars(<<"a", "/", "/", "/", "b", "/">>)
  /\ split.parent_length = 1 /\ split.base_begin = 4 /\ split.base_end = 5


\* C22: after a byte was written at an offset beyond the length L0 of a
\* file, whatever L0 is and whatever the sectors held before they were
\* allocated, every byte of the hole from L0 up to the offset reads as
\* zero.
C22_HoleBeyondLength ==
  (inode_last.op = "read" /\ inode_last.hole0 >= 0) =>
    /\ ~inode_panic
    /\ inode_last.ret = inode_last.size
    /\ \A k \in (inode_last.hole0 + 1)..inode_last.size :
         inode_last.buf[k] = 0

\* The same for the files whose length L0 is a whole number of sectors.
C22_HoleBeyondSectors ==
  (inode_last.op = "read" /\ inode_last.hole0 >= 0
     /\ inode_last.hole0 % BLOCK_SECTOR_SIZE = 0) =>
    /\ ~inode_panic
    /\ inode_last.ret = inode_last.size
    /\ \A k \in (inode_last.hole0 + 1)..inode_last.size :
         inode_last.buf[k] = 0


-----------------------------------------------------------------------------
(* Properties of the page-fault handler step by step.                      *)

InFrameList(e) == \E i \in 1..Len(frame_table) : frame_table[i] = e

\* C23: wherever the threads are preempted or sleep, an entry is in the
\* frame list exactly if its state is LOADED, and its state is LOADED
\* exactly if its kpage is set; so the victim frame_evict chooses always
\* passes the assertions of frame_evict.
C23_FrameListIsLoaded ==
  /\ \A e \in Entries :
       supp[e].state # "NONE" =>
         /\ InFrameList(e) <=> supp[e].state = "LOADED"
         /\ supp[e].state = "LOADED" <=> supp[e].kpage # 0
  /\ ~evh.unfit

\* The second half of C23 alone: the victim frame_evict chose was LOADED
\* and not pinned, as frame_evict asserts.
C23_VictimPassesAssertions == ~evh.unfit

\* C24: the owner of a page that another thread evicts never faults on
\* the page while its entry still reads LOADED: every fault on a page
\* whose mapping was removed finds the entry SWAPPED, or NOT_LOADED for a
\* mapped file, and is served.
C24_FaultAfterUnmap == evh.killed = "none"

\* C25: the page a fault brings back from the swap device holds what the
\* page held when its mapping was removed, with every byte its owner
\* stored while another thread was evicting it.
C25_StoresDuringEviction ==
  (evh.restored # <<>> /\ evh.was # <<<<>>>>) => evh.restored = evh.was

\* The threads inside an eviction.
Evicting(p) == thr[p].pc \in {"swap_write", "uninstall", "free", "state"}

\* C26: two threads inside frame_evict never have the same victim, the
\* owner of the victim does not destroy the entry under the evicting
\* thread, and frame_uninstall and frame_free meet a LOADED entry, once
\* for each eviction.
C26_OneEvictorPerVictim ==
  /\ \A p, q \in Procs :
       (p # q /\ Evicting(p) /\ Evicting(q)) => thr[p].victim # thr[q].victim
  /\ ~evh.uaf
  /\ ~evh.stale
  /\ evh.failed \notin {"frame_uninstall", "frame_free", "supp_set_state"}

\* The parts of C26, one by one.
C26_DistinctVictims ==
  \A p, q \in Procs :
    (p # q /\ Evicting(p) /\ Evicting(q)) => thr[p].victim # thr[q].victim

C26_EntryNotFreed == ~evh.uaf

C26_OnceOnLoaded ==
  /\ ~evh.stale
  /\ evh.failed \notin {"frame_uninstall", "frame_free", "supp_set_state"}


-----------------------------------------------------------------------------
(* Properties of the end of a process.                                     *)

\* The child is inside process_exit.
InProcessExit == c_pc \in ExitPcs \ {"dead"}

\* The parent has waited for the child, or has exited.
ParentWaitedOrExited == Len(wait_ret) >= 1 \/ p_pc = "done"

\* C27: a process that has entered process_exit completes it and frees
\* its record once its parent has waited for it or has exited; a child
\* that is blocked in the handshake is released when the parent exits
\* without waiting.  A run that ends in a kernel panic is left aside.
C27_ExitCompletes ==
  (InProcessExit /\ ParentWaitedOrExited) ~> (c_pc = "dead" \/ proc_panic)

SemaphoresAtMostOne ==
  ~child.freed => (child.wait_sema <= 1 /\ child.exit_sema <= 1)

SemaphoresZeroWhenFreed ==
  child.freed => (child.wait_sema = 0 /\ child.exit_sema = 0)

\* The parent is inside wait, or inside the load-failure path of exec.
InHandshake ==
  p_pc \in (WaitPcs \ {"w_find"}) \cup
            {"ex_up1", "ex_up2", "ex_down1", "ex_down2"}

\* C29: the handshake of wait and exit, and of the load-failure path of
\* exec, does not deadlock and leaves no signal behind: the call of the
\* parent and the process_exit of the child come to an end, the wait and
\* exit semaphores of the child never exceed 1, and both are 0 when the
\* child frees its record.
C29_HandshakeClean ==
  /\ [](SemaphoresAtMostOne /\ SemaphoresZeroWhenFreed)
  /\ InHandshake ~> (p_pc \in {"ready", "w_ret", "ex_ret"} \/ proc_panic)
  /\ (InProcessExit /\ InHandshake) ~> (c_pc = "dead" \/ proc_panic)

-----------------------------------------------------------------------------
(* Properties of filesys_cache_disable beside writers.                     *)

NoSlotDirty == \A i \in 1..FILESYS_CACHE_SIZE : ~filesys_cache[i].dirty

\* What the latest write of a sector left in the cache, if it went through
\* the cache, is on the device.
CacheWritesOnDevice ==
  \A s \in Sectors : cw.cached[s] # <<>> => fs_device[s] = cw.cached[s]

\* C30: whenever the cache is disabled no slot is dirty, so that every
\* write through the cache that has returned is on the raw device, however
\* filesys_cache_disable and the writers interleave, a writer that read
\* cache_enabled before filesys_cache_disable took the lock included.
C30_DisabledCacheIsClean ==
  ~cache_enabled => (NoSlotDirty /\ CacheWritesOnDevice)

-----------------------------------------------------------------------------
(* Properties of the slots of the buffer cache.                            *)

DirtyIsInUse ==
  \A i \in Slots : filesys_cache[i].dirty => filesys_cache[i].in_use

OneSlotPerSector ==
  \A i, j \in Slots :
    (i # j /\ filesys_cache[i].in_use /\ filesys_cache[j].in_use) =>
      filesys_cache[i].sector # filesys_cache[j].sector

\* A step that takes a dirty slot away from its sector leaves the data of
\* the slot on the device.
ReassignedAfterWriteBack ==
  \A i \in Slots :
    i \in TakenDirty =>
      fs_device'[filesys_cache[i].sector] = filesys_cache[i].data

\* C31: in every state of the buffer cache a dirty slot is in use and no two
\* slots in use hold the same sector, and a slot that is given to another
\* sector had its contents, if dirty, written to the device first: eviction
\* discards no write.
C31_SlotsAndWriteBack ==
  /\ [](DirtyIsInUse /\ OneSlotPerSector)
  /\ [][ReassignedAfterWriteBack]_vars

\* A write has taken a dirty slot, and the device holds what the slot held.
C31_Witness ==
  /\ cache_enabled
  /\ last_read.op = "evict"
  /\ last_read.got = last_read.want
  /\ \A i \in Slots : filesys_cache[i].in_use

-----------------------------------------------------------------------------
(* Properties of one call on a given cache.                                *)

\* The slot the clock examines as its j-th, j from 0, on the cache given.
ClockSlot(j) == ((drawn.c.t + j) % FILESYS_CACHE_SIZE) + 1

Pinned(i) == drawn.c.cache[i].in_use /\ drawn.c.cache[i].pin

\* Every slot of the cache given is in use and pinned.
AllPinned == \A i \in Slots : Pinned(i)

\* The access flag of slot i when the clock examines it as its j-th: the
\* first lap has cleared the flags of the slots it passed.
AccessWhenClockSlot(j) ==
  j < FILESYS_CACHE_SIZE /\ drawn.c.cache[ClockSlot(j)].access

\* C32: filesys_cache_evict examines at most 2N slots, from the cursor,
\* and leaves the cursor where it stopped; it never returns a pinned slot in
\* use; a slot in use whose access flag is set when it is examined is not
\* evicted, its flag is cleared and the clock moves on; a slot is returned
\* whenever a slot is free or not pinned, and none only when every slot is
\* in use and pinned.
C32_ClockEviction ==
  drawn.call.op = "evict" =>
    /\ drawn.call.seen \in 1..(2 * FILESYS_CACHE_SIZE)
    /\ drawn.call.slot = 0 <=> AllPinned
    /\ drawn.call.slot = 0 =>
         /\ drawn.call.seen = 2 * FILESYS_CACHE_SIZE
         /\ drawn.out.t = drawn.c.t
    /\ drawn.call.slot # 0 =>
         /\ drawn.call.slot = ClockSlot(drawn.call.seen - 1)
         /\ drawn.out.t = drawn.call.slot - 1
         /\ ~Pinned(drawn.call.slot)
         /\ ~drawn.out.cache[drawn.call.slot].in_use
         /\ drawn.c.cache[drawn.call.slot].in_use =>
              ~AccessWhenClockSlot(drawn.call.seen - 1)
         /\ drawn.c.cache[drawn.call.slot].dirty =>
              drawn.out.dev[drawn.c.cache[drawn.call.slot].sector] =
                drawn.c.cache[drawn.call.slot].data
    /\ \A j \in 0..(drawn.call.seen - 1) :
         (drawn.call.slot = 0 \/ j < drawn.call.seen - 1) =>
           /\ drawn.c.cache[ClockSlot(j)].in_use
           /\ Pinned(ClockSlot(j)) \/ AccessWhenClockSlot(j)
    /\ \A i \in Slots \ {drawn.call.slot} :
         drawn.out.cache[i] =
           IF /\ ~Pinned(i)
              /\ \E j \in 0..(drawn.call.seen - 1) : ClockSlot(j) = i
             THEN [drawn.c.cache[i] EXCEPT !.access = FALSE]
             ELSE drawn.c.cache[i]

\* The clock went round once, cleared the access flags, and evicted on its
\* second lap, past a pinned slot.
C32_Witness ==
  /\ drawn.call.op = "evict"
  /\ drawn.call.slot # 0
  /\ drawn.call.seen > FILESYS_CACHE_SIZE
  /\ \E i \in Slots : Pinned(i)
  /\ drawn.c.cache[drawn.call.slot].access

\* The call was made for a sector that is in no slot, with every slot in
\* use and pinned.
MissAllPinned ==
  /\ AllPinned
  /\ drawn.c.en
  /\ filesys_cache_lookup(drawn.c, drawn.call.sector) = 0

ReadBytesPanics == drawn.call.op = "read_bytes" => drawn.out.panic

WriteBytesPanics == drawn.call.op = "write_bytes" => drawn.out.panic

ReadFallsBack ==
  drawn.call.op = "read" =>
    /\ ~drawn.out.panic
    /\ drawn.call.buf = drawn.c.dev[drawn.call.sector]
    /\ drawn.out.cache = drawn.c.cache
    /\ drawn.out.dev = drawn.c.dev

WriteFallsBack ==
  drawn.call.op = "write" =>
    /\ ~drawn.out.panic
    /\ drawn.out.dev =
         [drawn.c.dev EXCEPT ![drawn.call.sector] = drawn.call.buf]
    /\ drawn.out.cache = drawn.c.cache

-----------------------------------------------------------------------------
(* Properties of the swap bitmap, vm/swap.c and vm/page.c.                 *)

BusySlots == {s \in SwapSlots : swap_bitmap[s]}

SwappedEntries == {e \in Entries : supp[e].state = "SWAPPED"}

\* Threads inside supp_swap after bitmap_scan_and_flip of swap_install and
\* before supp_set_swap: the slot thr[p].index is taken and no entry has it
\* yet.
SwappingOut == {p \in Procs : \/ thr[p].pc = "swap_write"
                              \/ /\ thr[p].pc \in {"uninstall", "free", "state"}
                                 /\ thr[p].sector = PAGE_SECTOR_COUNT}

\* The slots that hold, or are being given, pages of process q.
HeldFor(q) ==
  {supp[e].swap_index : e \in {x \in SwappedEntries : x[1] = q}}
    \cup {thr[p].index : p \in {x \in SwappingOut : thr[x].victim[1] = q}}

SwapBusyIsHeld == BusySlots = UNION {HeldFor(q) : q \in Procs}

SwapNotShared ==
  /\ \A e1, e2 \in SwappedEntries :
       e1 # e2 => supp[e1].swap_index # supp[e2].swap_index
  /\ \A p \in SwappingOut :
       /\ \A e \in SwappedEntries : supp[e].swap_index # thr[p].index
       /\ \A q \in SwappingOut : q # p => thr[q].index # thr[p].index

\* swap_uninstall is about to be called by supp_unswap (page.c:454).
SwapInOnBusy ==
  \A p \in Procs :
    thr[p].pc = "unswap_read" =>
      /\ supp[thr[p].e].state = "SWAPPED"
      /\ swap_bitmap[supp[thr[p].e].swap_index]

SwapFreedAtExit == \A q \in Procs : thr[q].pc = "exited" => HeldFor(q) = {}

\* C34: while the kernel runs, the busy slots of the swap bitmap are the
\* swap_index values of the swapped entries of the live processes, plus the
\* slots swap_install has handed out to an eviction that is under way; no
\* two of them are the same slot; swap_uninstall is called on a busy slot;
\* and no slot holds a page of a process that has left supp_remove_all.
C34_SwapSlotsMatchEntries ==
  ~vm_panic =>
    (SwapBusyIsHeld /\ SwapNotShared /\ SwapInOnBusy /\ SwapFreedAtExit)

-----------------------------------------------------------------------------
(* Properties of supp_load_file, vm/page.c.                                *)

\* The last call was a fault on a file page whose file_read came back
\* short or whose pagedir_set_page failed.
LoadFailed ==
  /\ vm_last.op = "load_file"
  /\ vm_last.kpage # 0
  /\ \/ vm_last.read_bytes > 0 /\ vm_last.got < vm_last.read_bytes
     \/ ~vm_last.success

-----------------------------------------------------------------------------
(* Properties of frame_allocate_swap on a full user pool, vm/frame.c.      *)

\* Every frame of the list frame_allocate_swap was given is pinned.
AllocatedAllPinned == scan.stage = "allocated" /\ Range(scan.ft) = scan.pinned

C36_UnpinnedAllocates ==
  (scan.stage = "allocated" /\ Range(scan.ft) # scan.pinned) =>
     /\ ~scan.panic /\ ~scan.spin
     /\ scan.kpage # 0
     /\ Cardinality(scan.swapped) = 1
     /\ scan.swapped \cap scan.pinned = {}

-----------------------------------------------------------------------------
(* Properties of the reference counts, filesys/filesys.c and               *)
(* filesys/inode.c.                                                        *)

\* The handles on the inode of sector s that callers hold.
HandlesOn(s) == Cardinality({i \in 1..Len(fs_handles) : fs_handles[i] = s})

\* open_cnt of the struct inode of sector s, 0 when open_inodes has none.
OpenCntOf(s) ==
  IF \E i \in 1..Len(open_inodes) : open_inodes[i].sector = s
    THEN open_inodes[CHOOSE i \in 1..Len(open_inodes) :
                       open_inodes[i].sector = s].open_cnt
    ELSE 0

OpenCountsBalanced ==
  /\ \A s \in 0..(DirSectors - 1) : OpenCntOf(s) = HandlesOn(s)
  /\ \A i \in 1..Len(open_inodes) : open_inodes[i].open_cnt > 0

\* C37: after every call of filesys_create, filesys_create_dir,
\* filesys_open, filesys_open_dir and filesys_remove, successful or not, the
\* open count of every inode in memory is the number of handles returned
\* and not yet closed, and no inode with open count 0 is in open_inodes.
C37_OpenCountsBalanced ==
  (fs_formatted /\ ~inode_panic /\ ~cache_panic) => OpenCountsBalanced

\* PATH names a regular file.
FileAt(path) ==
  /\ PathNow(CacheState, path) # NullInode
  /\ ~IsDirNow(CacheState, PathNow(CacheState, path))

\* One of the first UPTO components of PATH is a regular file.
WalkMeetsFile(path, upto) == \E k \in 1..upto : FileAt(SubSeq(path, 1, k))

\* The calls that do not keep the counts: filesys_open (""), a walk of
\* filesys_open_dir_length that meets a regular file, and the removal of a
\* directory.
UnbalancingCall ==
  \/ fs_last'.op = "open_empty"
  \/ /\ fs_last'.op \in {"create", "mkdir", "remove"}
     /\ WalkMeetsFile(fs_last'.path, Len(fs_last'.path) - 1)
  \/ /\ fs_last'.op = "open_dir"
     /\ WalkMeetsFile(fs_last'.path, Len(fs_last'.path))
  \/ /\ fs_last'.op = "remove"
     /\ IsDirNow(CacheState, PathNow(CacheState, fs_last'.path))

\* Every other call, successful or not, and every close keeps the counts
\* equal to the handles.
C37_OtherCallsBalanced ==
  [][(OpenCountsBalanced /\ ~UnbalancingCall
      /\ ~inode_panic' /\ ~cache_panic') => OpenCountsBalanced']_vars

-----------------------------------------------------------------------------
(* Properties of the directory entries, filesys/directory.c.               *)

\* The inode of SECTOR is in open_inodes and marked removed.
MarkedRemoved(sector) ==
  \E i \in 1..Len(open_inodes) :
    open_inodes[i].sector = sector /\ open_inodes[i].removed

\* SECTOR is allocated and holds an inode that is not marked removed.
LiveInode(sector) ==
  /\ sector \in free_map
  /\ FromSector(SectorNow(CacheState, sector)).magic = INODE_MAGIC
  /\ ~MarkedRemoved(sector)

\* The directories a walk from the root reaches through at most DEPTH
\* entries in use that are not "." and "..", live inodes only.
RECURSIVE LiveDirs(_)
LiveDirs(depth) ==
  IF depth = 0 THEN {ROOT_DIR_SECTOR}
  ELSE Let(LiveDirs(depth - 1),
           LAMBDA up :
             up \cup {s \in 0..(DirSectors - 1) :
                        /\ LiveInode(s)
                        /\ IsDirNow(CacheState, s)
                        /\ \E d \in up :
                             \E k \in 1..DirEntryCnt :
                               Let(EntriesNow(CacheState, d)[k],
                                   LAMBDA e :
                                     /\ e[3] # 0
                                     /\ e[2] \notin {Dot, DotDot}
                                     /\ e[1] = s)})

\* The entries in use, "." and ".." left out, of the directories that were
\* not removed.
LiveEntries ==
  {e \in UNION {{EntriesNow(CacheState, d)[k] : k \in 1..DirEntryCnt} :
                 d \in LiveDirs(MaxName + 1)} :
     e[3] # 0 /\ e[2] \notin {Dot, DotDot}}

\* C38: after any sequence of create, create_dir and remove, paths that end
\* in "." and ".." included, every entry in use other than "." and ".." of a
\* directory that was not removed names an allocated sector that holds an
\* inode not marked removed.
C38_NoDanglingEntry ==
  (fs_formatted /\ ~inode_panic /\ ~cache_panic) =>
     \A e \in LiveEntries : LiveInode(e[1])

-----------------------------------------------------------------------------
(* Properties of inode_disk_grow_length_direct, filesys/inode.c.           *)

\* Sectors the call had to allocate, and sectors that were free.
GrowNeeded == bytes_to_sectors(drawn.size) - bytes_to_sectors(drawn.d.length)
GrowFree == GrowSectors - Cardinality(drawn.fm)

\* The call grew the file and the free map had fewer sectors than it
\* needed.
GrowRanOut ==
  /\ drawn.stage = "done"
  /\ drawn.size > drawn.d.length
  /\ bytes_to_sectors(drawn.size) <= INODE_BLOCK_COUNT
  /\ GrowFree < GrowNeeded

\* The call grew the file and found the sectors.
GrowFound ==
  /\ drawn.stage = "done"
  /\ drawn.size > drawn.d.length
  /\ bytes_to_sectors(drawn.size) <= INODE_BLOCK_COUNT
  /\ GrowFree >= GrowNeeded

\* The sectors the call added to the inode.
GrowNew ==
  {drawn.d_out.blocks[i] :
     i \in (bytes_to_sectors(drawn.d.length) + 1)..bytes_to_sectors(drawn.size)}

\* The call failed for want of sectors and left the free map and the
\* length as they were.
GrowRolledBack ==
  GrowRanOut =>
    /\ ~drawn.panic
    /\ ~drawn.ok
    /\ drawn.fm_out = drawn.fm
    /\ drawn.d_out.length = drawn.d.length
    /\ \A i \in 1..bytes_to_sectors(drawn.d.length) :
         drawn.d_out.blocks[i] = drawn.d.blocks[i]

\* The call found its sectors: they are new, allocated, and the length is
\* the one asked for.
GrowGrown ==
  GrowFound =>
    /\ ~drawn.panic
    /\ drawn.ok
    /\ drawn.d_out.length = drawn.size
    /\ Cardinality(GrowNew) = GrowNeeded
    /\ GrowNew \cap drawn.fm = {}
    /\ drawn.fm_out = drawn.fm \cup GrowNew

\* C39: when an allocation fails partway, inode_disk_grow_length_direct on
\* a direct inode releases the sectors it allocated in this call and no
\* other, leaves the length as it was and returns false, so that the free
\* map is what it was before the call; when it succeeds with zero = true
\* every sector it allocated reads as zeros.
C39_GrowDirectRollsBack ==
  /\ GrowRolledBack
  /\ GrowGrown
  /\ (GrowFound /\ drawn.zero) => drawn.zeros

\* The same with the sectors as the cache and the device hold them, and
\* with one filesys_block_read of any one new sector after the call.
C39_GrowDirectContent ==
  /\ GrowRolledBack
  /\ GrowGrown
  /\ (GrowFound /\ drawn.zero) =>
       /\ \A s \in GrowNew : drawn.held[s] = Fill(0)
       /\ drawn.zeros_each

\* A call that needed two sectors, got one, wrote zeros to it and gave it
\* back.
GrowGaveBack ==
  /\ GrowRanOut
  /\ GrowFree = 1 /\ GrowNeeded = 2
  /\ drawn.zero
  /\ drawn.d_out.blocks[1] \notin drawn.fm_out
  /\ drawn.d_out.blocks[1] # 0
  /\ drawn.fm_out = drawn.fm

-----------------------------------------------------------------------------
(* The block trees of the inode store and the free map.                    *)

\* The sectors the block tree of D refers to, one element for each place
\* that refers, walked as inode_disk_remove and inode_disk_read_at walk it:
\* the first bytes_to_sectors (length) blocks of a direct inode, and the
\* first inode_disk_blocks blocks of an indirect one, each with the tree of
\* the struct inode_disk it holds.
RECURSIVE TreeRefs(_, _, _)
TreeRefs(c, d, fuel) ==
  IF fuel = 0 THEN <<>>
  ELSE IF d.depth = 0
    THEN [i \in 1..Min(bytes_to_sectors(d.length), INODE_BLOCK_COUNT) |->
            d.blocks[i]]
    ELSE LET RECURSIVE Upto(_)
             Upto(n) ==
               IF n = 0 THEN <<>>
               ELSE Upto(n - 1) \o <<d.blocks[n]>>
                    \o TreeRefs(c, FromSector(SectorNow(c, d.blocks[n])),
                                fuel - 1)
         IN Upto(Min(inode_disk_blocks(d), INODE_BLOCK_COUNT))

\* The live inode: the struct inode of the list of open inodes if it is
\* open, else the struct inode_disk in its sector.
LiveRoot ==
  IF open_inodes # <<>> THEN open_inodes[1].data
  ELSE FromSector(SectorNow(CacheState, created[1]))

LiveSector ==
  IF open_inodes # <<>> THEN open_inodes[1].sector ELSE created[1]

InodeLive == open_inodes # <<>> \/ created # <<>>

\* The sector of the live inode and every sector its tree refers to.
LiveRefs == <<LiveSector>> \o TreeRefs(CacheState, LiveRoot, Fuel)

RefsAllocated == \A k \in 1..Len(LiveRefs) : LiveRefs[k] \in free_map

RefsOnce ==
  \A k, l \in 1..Len(LiveRefs) : LiveRefs[k] = LiveRefs[l] => k = l

\* C40: every sector the block tree of a live inode refers to is allocated
\* in the free map, and no sector is referred to from two places, after any
\* calls of inode_create, inode_write_at, inode_remove and inode_close,
\* growths that fail for lack of space included.
C40_TreeSectorsAllocatedOnce ==
  (InodeLive /\ ~inode_panic /\ ~cache_panic) =>
    (RefsAllocated /\ RefsOnce)

\* A write that ran out of sectors left a tree of depth 2 behind.
GrowthFailedAtDepth2 ==
  /\ InodeLive /\ ~inode_panic /\ ~cache_panic
  /\ inode_last.op \in {"write", "write_byte"}
  /\ inode_last.ret < inode_last.size
  /\ LiveRoot.depth = 2
  /\ Len(LiveRefs) > 2

\* The same calls on devices that run out of sectors, with the cache left
\* off as it is after boot (cache.c:37): every filesys_block_read is a
\* block_read of the device.
FullSectors == 6..10

InitInodeFull ==
  /\ \E n \in FullSectors : InitState(n)
  /\ scan = NoScan /\ split = NoSplit /\ drawn = NoDrawn

NextInodeFull ==
  \/ \E length \in {0} : InodeCreate(length)
  \/ InodeOpen
  \/ \E i \in 1..MaxInodes, v \in 0..1, size \in IoSizes :
       InodeWrite(i, v, size)
  \/ \E i \in 1..MaxInodes, size \in IoSizes : InodeRead(i, size)
  \/ \E i \in 1..MaxInodes, offset \in ByteOffsets :
       InodeWriteByte(i, offset)
  \/ \E i \in 1..MaxInodes, in \in ReadAtInputs :
       InodeReadAt(i, in[1], in[2])
  \/ \E i \in 1..MaxInodes : InodeRemove(i)
  \/ \E i \in 1..MaxInodes : InodeClose(i)

SpecInodeFull == InitInodeFull /\ [][NextInodeFull]_vars

====
